---- MODULE Spec2Model ----
(***************************************************************************)
(* Model of the coach-outreach repository: the coach list builder          *)
(* (SmartEmailSender.get_coaches_to_email), the batch sender               *)
(* (SmartEmailSender.send_to_coaches), the sheet manager's follow-up       *)
(* operations, the response tracker, and the Twitter DM tracker and sender *)
(* (TwitterDMTracker, TwitterDMSender).                                    *)
(*                                                                         *)
(* A cell of the spreadsheet is a Python string, modelled as a sequence of *)
(* one-character strings, so that strip/lower/split/substring tests are    *)
(* computed and not assumed.  The sheet is the sequence of data rows (the  *)
(* header row is the variable headers); data row i is sheet row i + 1.     *)
(***************************************************************************)
EXTENDS Integers, Sequences, FiniteSets, TLC

\* --------------------------------------------------------------------------
\* Python string operations
\* --------------------------------------------------------------------------

UpperChars ==
    <<"A","B","C","D","E","F","G","H","I","J","K","L","M",
      "N","O","P","Q","R","S","T","U","V","W","X","Y","Z">>

LowerChars ==
    <<"a","b","c","d","e","f","g","h","i","j","k","l","m",
      "n","o","p","q","r","s","t","u","v","w","x","y","z">>

Digits ==
    <<"0","1","2","3","4","5","6","7","8","9">>

Whitespace ==
    {" ", "\n", "\r", "\t"}

IsUpper(c) ==
    \E i \in 1..26 : UpperChars[i] = c

IsLower(c) ==
    \E i \in 1..26 : LowerChars[i] = c

IsDigit(c) ==
    \E i \in 1..10 : Digits[i] = c

IsAlpha(c) ==
    IsUpper(c) \/ IsLower(c)

LowerChar(c) ==
    IF IsUpper(c) THEN LowerChars[CHOOSE i \in 1..26 : UpperChars[i] = c] ELSE c

\* str.lower()
Lower(s) ==
    [i \in 1..Len(s) |-> LowerChar(s[i])]

UpperChar(c) ==
    IF IsLower(c) THEN UpperChars[CHOOSE i \in 1..26 : LowerChars[i] = c] ELSE c

\* str.upper()
Upper(s) ==
    [i \in 1..Len(s) |-> UpperChar(s[i])]

\* str.strip()
Strip(s) ==
    LET keep == {i \in 1..Len(s) : s[i] \notin Whitespace}
    IN  IF keep = {} THEN <<>>
        ELSE LET lo == CHOOSE i \in keep : \A j \in keep : i <= j
                 hi == CHOOSE i \in keep : \A j \in keep : j <= i
             IN  SubSeq(s, lo, hi)

\* sub in s
Contains(s, sub) ==
    \E i \in 1..(Len(s) - Len(sub) + 1) : SubSeq(s, i, i + Len(sub) - 1) = sub

\* any(x in s for x in subs)
ContainsAny(s, subs) ==
    \E k \in 1..Len(subs) : Contains(s, subs[k])

\* s.replace(c, '') for a one-character c
RemoveChar(s, c) ==
    SelectSeq(s, LAMBDA x : x # c)

\* s.split(sep)[0] for a one-character sep
SplitFirst(s, sep) ==
    LET hits == {i \in 1..Len(s) : s[i] = sep}
    IN  IF hits = {} THEN s
        ELSE SubSeq(s, 1, (CHOOSE i \in hits : \A j \in hits : i <= j) - 1)

\* s.count(c)
CountChar(s, c) ==
    Cardinality({i \in 1..Len(s) : s[i] = c})

\* str.isdigit()
IsDigitStr(s) ==
    Len(s) > 0 /\ \A i \in 1..Len(s) : IsDigit(s[i])

DigitVal(c) ==
    (CHOOSE i \in 1..10 : Digits[i] = c) - 1

RECURSIVE ToInt(_)
\* int(s) for a string of digits
ToInt(s) ==
    IF Len(s) = 0 THEN 0
    ELSE 10 * ToInt(SubSeq(s, 1, Len(s) - 1)) + DigitVal(s[Len(s)])

\* str(n) for 0 <= n <= 9
DigitStr(n) ==
    <<Digits[n + 1]>>

\* --------------------------------------------------------------------------
\* Dates: datetime.date, strftime('%m/%d/%Y'), strptime(..., '%m/%d/%Y')
\* --------------------------------------------------------------------------

NoDate ==
    [y |-> 0, m |-> 0, d |-> 0]

IsLeap(y) ==
    (y % 4 = 0 /\ y % 100 # 0) \/ y % 400 = 0

DaysIn(y, m) ==
    IF m = 2 THEN (IF IsLeap(y) THEN 29 ELSE 28)
    ELSE IF m \in {4, 6, 9, 11} THEN 30 ELSE 31

NextDay(dt) ==
    IF dt.d < DaysIn(dt.y, dt.m) THEN [dt EXCEPT !.d = dt.d + 1]
    ELSE IF dt.m < 12 THEN [y |-> dt.y, m |-> dt.m + 1, d |-> 1]
    ELSE [y |-> dt.y + 1, m |-> 1, d |-> 1]

RECURSIVE AddDays(_, _)
\* dt + timedelta(days=n)
AddDays(dt, n) ==
    IF n = 0 THEN dt ELSE AddDays(NextDay(dt), n - 1)

\* a <= b on dates
DateLE(a, b) ==
    \/ a.y < b.y
    \/ a.y = b.y /\ a.m < b.m
    \/ a.y = b.y /\ a.m = b.m /\ a.d <= b.d

Pad2(n) ==
    <<Digits[(n \div 10) + 1], Digits[(n % 10) + 1]>>

Pad4(n) ==
    <<Digits[(n \div 1000) + 1], Digits[((n \div 100) % 10) + 1],
      Digits[((n \div 10) % 10) + 1], Digits[(n % 10) + 1]>>

\* dt.strftime('%m/%d/%Y')
strftime(dt) ==
    Pad2(dt.m) \o <<"/">> \o Pad2(dt.d) \o <<"/">> \o Pad4(dt.y)

\* datetime.strptime(s, '%m/%d/%Y').date(); NoDate stands for ValueError.
\* %m and %d take one or two digits, %Y exactly four.
strptime(s) ==
    LET sl == {i \in 1..Len(s) : s[i] = "/"}
    IN  IF Cardinality(sl) # 2 THEN NoDate
        ELSE
          LET p1 == CHOOSE i \in sl : \A j \in sl : i <= j
              p2 == CHOOSE i \in sl : \A j \in sl : j <= i
              ms == SubSeq(s, 1, p1 - 1)
              ds == SubSeq(s, p1 + 1, p2 - 1)
              ys == SubSeq(s, p2 + 1, Len(s))
          IN  IF /\ IsDigitStr(ms) /\ Len(ms) <= 2
                 /\ IsDigitStr(ds) /\ Len(ds) <= 2
                 /\ IsDigitStr(ys) /\ Len(ys) = 4
              THEN LET y == ToInt(ys)
                       m == ToInt(ms)
                       d == ToInt(ds)
                   IN  IF y >= 1 /\ m \in 1..12 /\ d >= 1 /\ d <= DaysIn(y, m)
                       THEN [y |-> y, m |-> m, d |-> d]
                       ELSE NoDate
              ELSE NoDate

\* --------------------------------------------------------------------------
\* Sheet layout and keyword lookup of columns
\* --------------------------------------------------------------------------

\* sheets/manager.py DEFAULT_HEADERS
DEFAULT_HEADERS ==
    << <<"S","c","h","o","o","l">>,
       <<"U","R","L">>,
       <<"r","e","c","r","u","i","t","i","n","g"," ","c","o","o","r","d","i","n","a","t","o","r"," ","n","a","m","e">>,
       <<"O","l","i","n","e"," ","C","o","a","c","h">>,
       <<"R","C"," ","t","w","i","t","t","e","r">>,
       <<"O","C"," ","t","w","i","t","t","e","r">>,
       <<"R","C"," ","e","m","a","i","l">>,
       <<"O","C"," ","e","m","a","i","l">>,
       <<"R","C"," ","C","o","n","t","a","c","t","e","d">>,
       <<"O","L"," ","C","o","n","t","a","c","t","e","d">>,
       <<"R","C"," ","N","o","t","e","s">>,
       <<"O","L"," ","N","o","t","e","s">>,
       <<"R","C"," ","S","t","a","g","e">>,
       <<"R","C"," ","N","e","x","t"," ","C","o","n","t","a","c","t">>,
       <<"O","L"," ","S","t","a","g","e">>,
       <<"O","L"," ","N","e","x","t"," ","C","o","n","t","a","c","t">>,
       <<"R","C"," ","R","e","s","p","o","n","d","e","d">>,
       <<"O","L"," ","R","e","s","p","o","n","d","e","d">>,
       <<"R","C"," ","T","w","i","t","t","e","r"," ","S","t","a","t","u","s">>,
       <<"O","L"," ","T","w","i","t","t","e","r"," ","S","t","a","t","u","s">>,
       <<"R","C"," ","E","m","a","i","l"," ","S","t","a","t","u","s">>,
       <<"O","L"," ","E","m","a","i","l"," ","S","t","a","t","u","s">> >>

school_kw ==
    << <<"s","c","h","o","o","l">> >>

ol_name_kw ==
    << <<"o","l","i","n","e"," ","c","o","a","c","h">>,
       <<"o","l"," ","c","o","a","c","h">>,
       <<"o","-","l","i","n","e"," ","c","o","a","c","h">>,
       <<"o","f","f","e","n","s","i","v","e"," ","l","i","n","e"," ","c","o","a","c","h">>,
       <<"o","l","i","n","e">>,
       <<"p","o","s","i","t","i","o","n"," ","c","o","a","c","h">> >>

rc_name_kw ==
    << <<"r","e","c","r","u","i","t","i","n","g"," ","c","o","o","r","d","i","n","a","t","o","r">>,
       <<"r","e","c","r","u","i","t","i","n","g"," ","c","o","o","r","d">>,
       <<"r","c"," ","n","a","m","e">> >>

ol_email_kw ==
    << <<"o","c"," ","e","m","a","i","l">>,
       <<"o","l"," ","e","m","a","i","l">>,
       <<"o","l","i","n","e"," ","e","m","a","i","l">>,
       <<"p","o","s","i","t","i","o","n"," ","c","o","a","c","h"," ","e","m","a","i","l">> >>

rc_email_kw ==
    << <<"r","c"," ","e","m","a","i","l">>,
       <<"r","e","c","r","u","i","t","i","n","g"," ","c","o","o","r","d","i","n","a","t","o","r"," ","e","m","a","i","l">>,
       <<"r","e","c","r","u","i","t","i","n","g"," ","e","m","a","i","l">> >>

ol_contacted_kw ==
    << <<"o","l"," ","c","o","n","t","a","c","t","e","d">>,
       <<"o","c"," ","c","o","n","t","a","c","t","e","d">>,
       <<"o","l","i","n","e"," ","c","o","n","t","a","c","t","e","d">>,
       <<"p","o","s","i","t","i","o","n"," ","c","o","n","t","a","c","t","e","d">> >>

rc_contacted_kw ==
    << <<"r","c"," ","c","o","n","t","a","c","t","e","d">>,
       <<"r","e","c","r","u","i","t","i","n","g"," ","c","o","n","t","a","c","t","e","d">> >>

rc_stage_kw ==
    << <<"r","c"," ","s","t","a","g","e">> >>

rc_next_kw ==
    << <<"r","c"," ","n","e","x","t"," ","c","o","n","t","a","c","t">>,
       <<"r","c"," ","n","e","x","t">> >>

ol_stage_kw ==
    << <<"o","l"," ","s","t","a","g","e">> >>

ol_next_kw ==
    << <<"o","l"," ","n","e","x","t"," ","c","o","n","t","a","c","t">>,
       <<"o","l"," ","n","e","x","t">> >>

rc_responded_kw ==
    << <<"r","c"," ","r","e","s","p","o","n","d","e","d">> >>

ol_responded_kw ==
    << <<"o","l"," ","r","e","s","p","o","n","d","e","d">> >>

rc_email_status_kw ==
    << <<"r","c"," ","e","m","a","i","l"," ","s","t","a","t","u","s">> >>

ol_email_status_kw ==
    << <<"o","l"," ","e","m","a","i","l"," ","s","t","a","t","u","s">> >>

\* is_contacted: contacted_indicators
contacted_indicators ==
    << <<"y","e","s">>,
       <<"f","o","l","l","o","w","e","d">>,
       <<"s","e","n","t">>,
       <<"d","o","n","e">>,
       <<"x">>,
       <<"t","r","u","e">>,
       <<"e","m","a","i","l","e","d">>,
       <<"c","o","n","t","a","c","t","e","d">> >>

\* is_contacted: v not in ['no', 'false', '']
not_contacted_values ==
    << <<"n","o">>,
       <<"f","a","l","s","e">>,
       <<>> >>

\* has_bad_email
bad_email_values ==
    << <<"w","r","o","n","g">>,
       <<"b","a","d">>,
       <<"i","n","v","a","l","i","d">>,
       <<"b","o","u","n","c","e","d">> >>

\* send_to_coaches: is_blocked
blocked_markers ==
    << <<"b","l","o","c","k","e","d">>,
       <<"b","a","n","n","e","d">>,
       <<"s","u","s","p","e","n","d","e","d">>,
       <<"a","u","t","h","e","n","t","i","c","a","t","i","o","n">>,
       <<"s","e","n","d","e","r"," ","r","e","f","u","s","e","d">>,
       <<"5","5","0"," ","5",".","7">>,
       <<"p","o","l","i","c","y">>,
       <<"s","p","a","m">> >>

\* send_to_coaches: is_invalid_email
invalid_markers ==
    << <<"r","e","c","i","p","i","e","n","t">>,
       <<"m","a","i","l","b","o","x">>,
       <<"u","s","e","r"," ","u","n","k","n","o","w","n">>,
       <<"d","o","e","s"," ","n","o","t"," ","e","x","i","s","t">>,
       <<"5","5","0">>,
       <<"5","5","1">>,
       <<"5","5","2">>,
       <<"5","5","3">>,
       <<"5","5","4">>,
       <<"i","n","v","a","l","i","d">>,
       <<"r","e","j","e","c","t","e","d">> >>

SeqToSet(s) ==
    {s[i] : i \in 1..Len(s)}

RECURSIVE find_col_from(_, _, _)
\* The loop of find_col from header index i (0-based) on: the first header
\* whose lowercased, stripped text contains one of the keywords, else -1.
find_col_from(hdrs, keywords, i) ==
    IF i >= Len(hdrs) THEN -1
    ELSE IF ContainsAny(Lower(Strip(hdrs[i + 1])), keywords) THEN i
    ELSE find_col_from(hdrs, keywords, i + 1)

RECURSIVE find_col_by_keyword(_, _)
\* A lookup that tries the keywords one after the other over all headers.
find_col_by_keyword(hdrs, keywords) ==
    IF Len(keywords) = 0 THEN -1
    ELSE LET c == find_col_from(hdrs, <<Head(keywords)>>, 0)
         IN  IF c >= 0 THEN c ELSE find_col_by_keyword(hdrs, Tail(keywords))

find_col(hdrs, keywords) ==
    find_col_from(hdrs, keywords, 0)

\* The column table get_coaches_to_email computes once per pass (0-based, -1
\* when no header matches).
Columns(hdrs) ==
    [school          |-> find_col(hdrs, school_kw),
     ol_name         |-> find_col(hdrs, ol_name_kw),
     rc_name         |-> find_col(hdrs, rc_name_kw),
     ol_email        |-> find_col(hdrs, ol_email_kw),
     rc_email        |-> find_col(hdrs, rc_email_kw),
     ol_contacted    |-> find_col(hdrs, ol_contacted_kw),
     rc_contacted    |-> find_col(hdrs, rc_contacted_kw),
     rc_stage        |-> find_col(hdrs, rc_stage_kw),
     rc_next         |-> find_col(hdrs, rc_next_kw),
     ol_stage        |-> find_col(hdrs, ol_stage_kw),
     ol_next         |-> find_col(hdrs, ol_next_kw),
     rc_responded    |-> find_col(hdrs, rc_responded_kw),
     ol_responded    |-> find_col(hdrs, ol_responded_kw),
     rc_email_status |-> find_col(hdrs, rc_email_status_kw),
     ol_email_status |-> find_col(hdrs, ol_email_status_kw)]

\* The order of the DEFAULT_HEADERS columns in a sheet whose two notes columns
\* were moved to the end.
NotesLast ==
    <<1, 2, 3, 4, 5, 6, 7, 8, 9, 10, 13, 14, 15, 16, 17, 18, 19, 20, 21, 22, 11, 12>>

\* A row of the DEFAULT_HEADERS layout with its cells in that order.
Relaid(row) ==
    [i \in 1..Len(NotesLast) |-> row[NotesLast[i]]]

MOVED_HEADERS ==
    Relaid(DEFAULT_HEADERS)

\* The header rows the model runs with.
HeaderLayouts ==
    {DEFAULT_HEADERS, MOVED_HEADERS}

\* Columns(h) for each layout, computed once.
ColumnsOf ==
    [h \in HeaderLayouts |-> Columns(h)]

\* row[col] if col >= 0 and col < len(row) else ''
CellAt(row, col) ==
    IF col >= 0 /\ col < Len(row) THEN row[col + 1] ELSE <<>>

\* --------------------------------------------------------------------------
\* Email validation and the contact-state classifiers
\* --------------------------------------------------------------------------

MaxEmailLen ==
    100

\* [a-zA-Z0-9._%+-]
IsLocalChar(c) ==
    IsAlpha(c) \/ IsDigit(c) \/ c \in {".", "_", "%", "+", "-"}

\* [a-zA-Z0-9.-]
IsDomainChar(c) ==
    IsAlpha(c) \/ IsDigit(c) \/ c \in {".", "-"}

\* re.match(r'^[a-zA-Z0-9._%+-]+@[a-zA-Z0-9.-]+\.[a-zA-Z]{2,}$', e)
MatchesEmailPattern(e) ==
    \E a \in 2..Len(e) :
      /\ e[a] = "@"
      /\ \A i \in 1..(a - 1) : IsLocalChar(e[i])
      /\ \E k \in (a + 2)..(Len(e) - 2) :
           /\ e[k] = "."
           /\ \A i \in (a + 1)..(k - 1) : IsDomainChar(e[i])
           /\ \A i \in (k + 1)..Len(e) : IsAlpha(e[i])

is_valid_email(email) ==
    IF Len(email) = 0 THEN FALSE
    ELSE LET e == Strip(email)
         IN  MatchesEmailPattern(e) /\ Len(e) < MaxEmailLen

\* The separator loop of clean_email:  for sep in [',', ';', '\n'].
clean_email_split(e) ==
    LET e1 == IF \E i \in 1..Len(e) : e[i] = "," THEN Strip(SplitFirst(e, ",")) ELSE e
        e2 == IF \E i \in 1..Len(e1) : e1[i] = ";" THEN Strip(SplitFirst(e1, ";")) ELSE e1
        e3 == IF \E i \in 1..Len(e2) : e2[i] = "\n" THEN Strip(SplitFirst(e2, "\n")) ELSE e2
    IN  e3

clean_email(email) ==
    IF Len(email) = 0 THEN <<>>
    ELSE LET e0 == Lower(Strip(email))
             e1 == RemoveChar(RemoveChar(RemoveChar(e0, "\n"), "\r"), " ")
             e2 == clean_email_split(e1)
         IN  IF is_valid_email(e2) THEN e2 ELSE <<>>

is_contacted(value) ==
    IF Len(value) = 0 THEN FALSE
    ELSE LET v == Lower(Strip(value))
         IN  \/ ContainsAny(v, contacted_indicators)
             \/ (Len(v) > 0 /\ v \notin SeqToSet(not_contacted_values))

\* Variant: only the word yes counts as a response.
has_responded_yes_only(value) ==
    Lower(Strip(value)) = <<"y","e","s">>

has_responded(value) ==
    Len(value) > 0 /\ Len(Strip(value)) > 0

has_bad_email(value) ==
    IF Len(value) = 0 THEN FALSE
    ELSE Lower(Strip(value)) \in SeqToSet(bad_email_values)

\* next_date <= today, False on an empty value or a ValueError
is_due_for_followup(next_contact_value, now) ==
    IF Len(next_contact_value) = 0 THEN FALSE
    ELSE LET next_date == strptime(Strip(next_contact_value))
         IN  next_date # NoDate /\ DateLE(next_date, now)

\* int(raw) if raw.strip().isdigit() else 0
stage_of(raw) ==
    IF IsDigitStr(Strip(raw)) THEN ToInt(Strip(raw)) ELSE 0

Max(a, b) ==
    IF a >= b THEN a ELSE b

Min(a, b) ==
    IF a <= b THEN a ELSE b


\* --------------------------------------------------------------------------
\* SmartEmailSender.get_coaches_to_email
\* --------------------------------------------------------------------------

\* A coach entry of the returned list.  None is modelled as 0 for the column
\* fields (a found column is col + 1 >= 1).  The name fields are left out:
\* nothing downstream of the builder branches on them.
CoachEntry(email, school, type, row_idx, contacted_col, ol_col, rc_col, is_followup, stage) ==
    [email                |-> email,
     school               |-> school,
     type                 |-> type,
     row_idx              |-> row_idx,
     contacted_col        |-> contacted_col,
     row_ol_contacted_col |-> ol_col,
     row_rc_contacted_col |-> rc_col,
     is_followup          |-> is_followup,
     current_stage        |-> stage]

\* col + 1 if col >= 0 else None
ColOrNone(col) ==
    IF col >= 0 THEN col + 1 ELSE 0

\* What the loop body reads and derives from one row.
RowFacts(row, c, now) ==
    [school       |-> Strip(CellAt(row, c.school)),
     ol_email     |-> clean_email(CellAt(row, c.ol_email)),
     rc_email     |-> clean_email(CellAt(row, c.rc_email)),
     ol_contacted |-> is_contacted(CellAt(row, c.ol_contacted)),
     rc_contacted |-> is_contacted(CellAt(row, c.rc_contacted)),
     ol_responded |-> has_responded(CellAt(row, c.ol_responded)),
     rc_responded |-> has_responded(CellAt(row, c.rc_responded)),
     ol_bad_email |-> has_bad_email(CellAt(row, c.ol_email_status)),
     rc_bad_email |-> has_bad_email(CellAt(row, c.rc_email_status)),
     ol_due       |-> is_due_for_followup(CellAt(row, c.ol_next), now),
     rc_due       |-> is_due_for_followup(CellAt(row, c.rc_next), now),
     ol_stage     |-> stage_of(CellAt(row, c.ol_stage)),
     rc_stage     |-> stage_of(CellAt(row, c.rc_stage))]

\* Variant: no row is treated as one person holding both roles.
is_dual_role_never(f) ==
    FALSE

\* is_dual_role = ol_email and rc_email and ol_email == rc_email
is_dual_role(f) ==
    Len(f.ol_email) > 0 /\ Len(f.rc_email) > 0 /\ f.ol_email = f.rc_email

\* Variant: a dual row is taken as soon as one of its roles is not contacted.
dual_should_email_either(f) ==
    (~f.ol_contacted \/ ~f.rc_contacted) \/ f.ol_due \/ f.rc_due

\* Dual branch: should_email
dual_should_email(f) ==
    (~f.ol_contacted /\ ~f.rc_contacted) \/ f.ol_due \/ f.rc_due

\* Dual branch: the two early `continue`s
dual_skip(f) ==
    (f.rc_responded \/ f.ol_responded) \/ (f.rc_bad_email \/ f.ol_bad_email)

\* Variant: the OL test without the responded check.
ol_should_email_ignores_response(f) ==
    ~f.ol_bad_email /\ (~f.ol_contacted \/ f.ol_due)

ol_should_email(f) ==
    ~(f.ol_responded \/ f.ol_bad_email) /\ (~f.ol_contacted \/ f.ol_due)

\* Variant: the RC test without the follow-up clause.
rc_should_email_intro_only(f) ==
    ~(f.rc_responded \/ f.rc_bad_email) /\ ~f.rc_contacted

rc_should_email(f) ==
    ~(f.rc_responded \/ f.rc_bad_email) /\ (~f.rc_contacted \/ f.rc_due)

\* Variant: append without consulting seen_emails.
Emit_unchecked(acc, entry) ==
    [coaches |-> Append(acc.coaches, entry),
     seen    |-> acc.seen \cup {entry.email}]

\* if email not in seen_emails: seen_emails.add(email); coaches.append(entry)
Emit(acc, entry) ==
    IF entry.email \in acc.seen THEN acc
    ELSE [coaches |-> Append(acc.coaches, entry),
          seen    |-> acc.seen \cup {entry.email}]

\* The dual branch of the loop body.
DualPart(acc, f, row_idx, c) ==
    IF dual_skip(f) THEN acc
    ELSE IF dual_should_email(f) THEN
      Emit(acc, CoachEntry(f.ol_email, f.school, "dual", row_idx + 2, 0,
                           ColOrNone(c.ol_contacted), ColOrNone(c.rc_contacted),
                           f.ol_contacted \/ f.rc_contacted,
                           Max(f.ol_stage, f.rc_stage)))
    ELSE acc

\* The OL half of the else branch.
OlPart(acc, f, row_idx, c) ==
    IF Len(f.ol_email) > 0 /\ ol_should_email(f)
    THEN Emit(acc, CoachEntry(f.ol_email, f.school, "ol", row_idx + 2,
                              ColOrNone(c.ol_contacted), 0, 0,
                              f.ol_contacted, f.ol_stage))
    ELSE acc

\* The RC half of the else branch.
RcPart(acc, f, row_idx, c) ==
    IF Len(f.rc_email) > 0 /\ rc_should_email(f)
    THEN Emit(acc, CoachEntry(f.rc_email, f.school, "rc", row_idx + 2,
                              ColOrNone(c.rc_contacted), 0, 0,
                              f.rc_contacted, f.rc_stage))
    ELSE acc

\* The loop body once the row's cells are read and classified.
ProcessFacts(acc, f, row_idx, c) ==
    IF Len(f.school) = 0 THEN acc
    ELSE IF is_dual_role(f) THEN DualPart(acc, f, row_idx, c)
    ELSE RcPart(OlPart(acc, f, row_idx, c), f, row_idx, c)

\* One iteration of the loop over sheet_data; row_idx is the 0-based index.
ProcessRow(acc, row, row_idx, c, now) ==
    ProcessFacts(acc, RowFacts(row, c, now), row_idx, c)

RECURSIVE BuildUpTo(_, _, _, _)
\* The loop state (coaches, seen_emails) after the first k rows.
BuildUpTo(sheet_data, c, now, k) ==
    IF k = 0 THEN [coaches |-> <<>>, seen |-> {}]
    ELSE ProcessRow(BuildUpTo(sheet_data, c, now, k - 1), sheet_data[k], k - 1, c, now)

get_coaches_to_email(sheet_data, hdrs, now) ==
    BuildUpTo(sheet_data, ColumnsOf[hdrs], now, Len(sheet_data)).coaches


\* --------------------------------------------------------------------------
\* The spreadsheet (gspread worksheet): update_cell and delete_rows
\* --------------------------------------------------------------------------

NumCols ==
    Len(DEFAULT_HEADERS)

BlankRow ==
    [i \in 1..NumCols |-> <<>>]

RECURSIVE PadRows(_, _)
PadRows(sh, n) ==
    IF Len(sh) >= n THEN sh ELSE PadRows(Append(sh, BlankRow), n)

\* worksheet.update_cell(row, col, value), row and col 1-based, row 1 the
\* header row.  A write below the last data row lands on a new row.
update_cell(sh, row, col, value) ==
    IF row < 2 \/ col < 1 \/ col > NumCols THEN sh
    ELSE [PadRows(sh, row - 1) EXCEPT ![row - 1][col] = value]

\* worksheet.delete_rows(row)
delete_rows(sh, row) ==
    IF row < 2 \/ row - 1 > Len(sh) THEN sh
    ELSE [i \in 1..(Len(sh) - 1) |-> IF i < row - 1 THEN sh[i] ELSE sh[i + 1]]

RECURSIVE ApplyWrites(_, _, _)
\* The first n update_cell calls of the list ws, in order.
ApplyWrites(sh, ws, n) ==
    IF n = 0 THEN sh
    ELSE LET w == ws[n]
         IN  update_cell(ApplyWrites(sh, ws, n - 1), w.row, w.col, w.value)

Write(row, col, value) ==
    [row |-> row, col |-> col, value |-> value]

\* --------------------------------------------------------------------------
\* SmartEmailSender.send_to_coaches: the pieces of one loop iteration
\* --------------------------------------------------------------------------

\* Hard-coded 1-based columns of send_to_coaches
RC_STAGE_COL ==
    13

RC_NEXT_COL ==
    14

OL_STAGE_COL ==
    15

OL_NEXT_COL ==
    16

RC_EMAIL_STATUS_COL ==
    21

OL_EMAIL_STATUS_COL ==
    22

\* timedelta(days=3)
FOLLOWUP_DAYS ==
    3

\* The cap of min(current_stage + 1, 2)
MAX_STAGE ==
    2

is_single_valid_email(email) ==
    IF Len(email) = 0 THEN FALSE
    ELSE LET e == Strip(email)
         IN  /\ CountChar(e, "@") = 1
             /\ \A i \in 1..Len(e) : e[i] \notin {" ", "\n", "\r"}
             /\ MatchesEmailPattern(e)
             /\ Len(e) < MaxEmailLen

\* Variant: the stage counts on without the cap.
new_stage_uncapped(coach) ==
    IF coach.is_followup THEN coach.current_stage + 1 ELSE 0

\* new_stage = min(current_stage + 1, 2) if is_followup else 0
new_stage(coach) ==
    IF coach.is_followup THEN Min(coach.current_stage + 1, MAX_STAGE) ELSE 0

\* The update_cell calls after a successful send, in program order.
SuccessWrites(coach, now) ==
    LET today_str    == strftime(now)
        next_contact == strftime(AddDays(now, FOLLOWUP_DAYS))
        row_num      == coach.row_idx
        st           == DigitStr(new_stage(coach))
    IN  IF coach.type = "dual" THEN
          (IF coach.row_ol_contacted_col # 0
           THEN <<Write(row_num, coach.row_ol_contacted_col, today_str)>> ELSE <<>>)
          \o (IF coach.row_rc_contacted_col # 0
              THEN <<Write(row_num, coach.row_rc_contacted_col, today_str)>> ELSE <<>>)
          \o <<Write(row_num, RC_STAGE_COL, st), Write(row_num, RC_NEXT_COL, next_contact),
               Write(row_num, OL_STAGE_COL, st), Write(row_num, OL_NEXT_COL, next_contact)>>
        ELSE IF coach.type = "rc" THEN
          (IF coach.contacted_col # 0
           THEN <<Write(row_num, coach.contacted_col, today_str)>> ELSE <<>>)
          \o <<Write(row_num, RC_STAGE_COL, st), Write(row_num, RC_NEXT_COL, next_contact)>>
        ELSE
          (IF coach.contacted_col # 0
           THEN <<Write(row_num, coach.contacted_col, today_str)>> ELSE <<>>)
          \o <<Write(row_num, OL_STAGE_COL, st), Write(row_num, OL_NEXT_COL, next_contact)>>

wrong ==
    <<"w","r","o","n","g">>

\* The update_cell calls after a failed send classified as invalid recipient.
InvalidWrites(coach) ==
    IF coach.type = "dual" THEN
      <<Write(coach.row_idx, RC_EMAIL_STATUS_COL, wrong),
        Write(coach.row_idx, OL_EMAIL_STATUS_COL, wrong)>>
    ELSE IF coach.type = "rc" THEN <<Write(coach.row_idx, RC_EMAIL_STATUS_COL, wrong)>>
    ELSE <<Write(coach.row_idx, OL_EMAIL_STATUS_COL, wrong)>>

is_blocked(error) ==
    ContainsAny(Lower(error), blocked_markers)

is_invalid_email(error) ==
    ContainsAny(Lower(error), invalid_markers)


\* --------------------------------------------------------------------------
\* TwitterDMTracker
\* --------------------------------------------------------------------------

RECURSIVE LStripAt(_)
\* str.lstrip('@')
LStripAt(s) ==
    IF Len(s) > 0 /\ Head(s) = "@" THEN LStripAt(Tail(s)) ELSE s

rc_twitter_status_kw ==
    << <<"r","c"," ","t","w","i","t","t","e","r"," ","s","t","a","t","u","s">> >>

ol_twitter_status_kw ==
    << <<"o","l"," ","t","w","i","t","t","e","r"," ","s","t","a","t","u","s">> >>

rc_twitter_kw ==
    << <<"r","c"," ","t","w","i","t","t","e","r">> >>

ol_twitter_kw ==
    << <<"o","l"," ","t","w","i","t","t","e","r">>,
       <<"o","c"," ","t","w","i","t","t","e","r">> >>

Messaged ==
    <<"m","e","s","s","a","g","e","d">>

\* The fields of the dataclass DMRecord; none has a default.
DMRecordFields ==
    {"handle", "school", "coach_name", "sent_at", "message_preview"}

\* DMRecord(**given): the record, or the TypeError of a missing argument.
DMRecord(given) ==
    IF given = DMRecordFields THEN "DMRecord" ELSE "TypeError"

\* The keyword arguments _load_from_sheets constructs its records with.
LoadedFields ==
    {"handle", "school", "sent_at", "message_preview"}

\* The columns _load_from_sheets looks up in the header row.
TwitterColumns(hdrs) ==
    [rc_twitter_status |-> find_col(hdrs, rc_twitter_status_kw),
     ol_twitter_status |-> find_col(hdrs, ol_twitter_status_kw),
     rc_twitter        |-> find_col(hdrs, rc_twitter_kw),
     ol_twitter        |-> find_col(hdrs, ol_twitter_kw)]

\* TwitterColumns(h) for each layout, computed once.
TwitterColumnsOf ==
    [h \in HeaderLayouts |-> TwitterColumns(h)]

RECURSIVE load_rows(_, _, _, _)
\* The loop of _load_from_sheets over the data rows from step k on; step 2j
\* is the RC check of row j + 1 and step 2j + 1 its OL check.  The value is
\* sent_dms (its keys) and whether an exception left the loop.
load_rows(rows, cols, k, sent_dms) ==
    IF k >= 2 * Len(rows) THEN [sent_dms |-> sent_dms, raised |-> FALSE]
    ELSE LET row    == rows[(k \div 2) + 1]
             hcol   == IF k % 2 = 0 THEN cols.rc_twitter ELSE cols.ol_twitter
             scol   == IF k % 2 = 0 THEN cols.rc_twitter_status ELSE cols.ol_twitter_status
             handle == CellAt(row, hcol)
             status == CellAt(row, scol)
         IN  IF hcol >= 0 /\ scol >= 0 /\ handle # <<>> /\ Contains(Lower(status), Messaged)
             THEN IF DMRecord(LoadedFields) = "TypeError"
                  THEN [sent_dms |-> sent_dms, raised |-> TRUE]
                  ELSE load_rows(rows, cols, k + 1, sent_dms \cup {Lower(handle)})
             ELSE load_rows(rows, cols, k + 1, sent_dms)

\* TwitterDMTracker._load_from_sheets() on a sheet that is reachable: the keys
\* of sent_dms afterwards.  An exception of the loop is caught and logged.
load_from_sheets(hdrs, rows) ==
    IF Len(rows) < 1 THEN {}
    ELSE load_rows(rows, TwitterColumnsOf[hdrs], 0, {}).sent_dms

\* History: the handles of the rows whose Twitter Status contains 'messaged',
\* read off the DEFAULT_HEADERS layout.
MessagedHandles(rows) ==
    LET R == { rows[j] : j \in 1..Len(rows) }
    IN  { CellAt(r, 4) : r \in { x \in R : /\ CellAt(x, 4) # <<>>
                                           /\ Contains(Lower(CellAt(x, 18)), Messaged) } }
        \cup
        { CellAt(r, 5) : r \in { x \in R : /\ CellAt(x, 5) # <<>>
                                           /\ Contains(Lower(CellAt(x, 19)), Messaged) } }

\* TwitterDMTracker(): the tracker as constructed.  last_reset_date starts as
\* the empty string, which is no day (-1 here).  The fields messaged, marked
\* and delivered are history: the handles the sheet showed as messaged at
\* construction, the handles passed to mark_sent since, and how many times
\* each key of sent_dms was passed to mark_sent.
TwitterDMTracker(hdrs, rows, day) ==
    [sent_dms        |-> load_from_sheets(hdrs, rows),
     daily_count     |-> 0,
     last_reset_date |-> 0 - 1,
     messaged        |-> MessagedHandles(rows),
     marked          |-> {},
     delivered       |-> <<>>]

\* Variant: a tracker that remembers no handle.
has_sent_to_nobody(t, handle) ==
    FALSE

\* TwitterDMTracker.has_sent_to(handle)
has_sent_to(t, handle) ==
    LStripAt(Lower(handle)) \in t.sent_dms

\* TwitterDMTracker.mark_sent(handle, ...)
mark_sent(t, handle) ==
    LET key == LStripAt(Lower(handle))
        old == t.delivered
    IN  [t EXCEPT !.sent_dms    = @ \cup {key},
                  !.daily_count = @ + 1,
                  !.marked      = @ \cup {handle},
                  !.delivered   = [h \in DOMAIN old \cup {key} |->
                                     IF h # key THEN old[h]
                                     ELSE IF key \in DOMAIN old THEN old[key] + 1
                                     ELSE 1]]

\* TwitterDMTracker.get_daily_count(): the tracker after the call; its
\* daily_count is the value returned.
dm_get_daily_count(t, day) ==
    IF t.last_reset_date # day
    THEN [t EXCEPT !.daily_count = 0, !.last_reset_date = day]
    ELSE t

\* --------------------------------------------------------------------------
\* State
\* --------------------------------------------------------------------------

VARIABLES
    headers,       \* row 1 of the sheet
    sheet,         \* the data rows, sheet rows 2..
    today,         \* the clock: days elapsed since StartDate
    daily_count,   \* EmailTracker.daily_count
    last_date,     \* EmailTracker.last_date, as a day number
    sent_emails,   \* EmailTracker.sent_emails (its keys)
    conn,          \* SmartEmailSender._connection: "none", "ready", "unauth"
    pc,            \* where send_to_coaches stands: "idle", "loop", "finally", "return";
                   \* "raise" and "raised" while and after an exception escapes
    coaches,       \* the list being sent
    idx,           \* the loop index i
    sent,          \* local counters of send_to_coaches
    errors,
    skipped,
    remaining,
    attempts,      \* history: the SMTP send attempts of the current batch
    faults,        \* history: failures injected by the environment so far
    hist,          \* history: per coach (URL cell, entry type), its sends
    email_log,     \* the EmailLog worksheet: its data rows
    rt_sent_emails,\* ResponseTracker.sent_emails (the coach_email of each)
    responses,     \* ResponseTracker.responses (coach_email and subject of each)
    inbox,         \* the messages in the Gmail inbox: sender and subject
    calls,         \* history: SheetsManager calls made by hand so far
    budget,        \* how many failures the environment injects in this run
    sleeps,        \* history: time.sleep(delay_seconds) calls of the current batch
    wrapped,       \* history: the last call through retry_on_error and how it went
    tracker,       \* TwitterDMSender.tracker, a TwitterDMTracker
    dm,            \* the DM batch of TwitterDMSender: its locals and history
    applied        \* history: the last function applied on its own, with its result

vars ==
    <<headers, sheet, today, daily_count, last_date, sent_emails, conn, pc, coaches,
      idx, sent, errors, skipped, remaining, attempts, faults, hist,
      email_log, rt_sent_emails, responses, inbox, calls, budget, sleeps,
      wrapped, tracker, dm, applied>>

\* What the response tracker reads and writes.
resp ==
    <<email_log, rt_sent_emails, responses, inbox>>

\* --------------------------------------------------------------------------
\* Bounds and the sample data of the initial sheets
\* --------------------------------------------------------------------------

\* Days the clock may advance.
MaxDay ==
    9

\* Failures (SMTP, connection, sheet API) the environment may inject.
MaxFaults ==
    1

\* EmailConfig.max_per_day as configured for the runs.
max_per_day ==
    2

StartDate ==
    [y |-> 2026, m |-> 1, d |-> 24]

Now ==
    AddDays(StartDate, today)

EmailA ==
    <<"a","@","b",".","c","o">>

EmailC ==
    <<"c","@","d",".","c","o">>

EmailE ==
    <<"e","@","f",".","c","o">>

\* The same mailbox as EmailA, as typed into a cell.
EmailARaw ==
    <<" ","A","@","B",".","c","o">>

School1 ==
    <<"S","1">>

School2 ==
    <<"S","2">>

Url1 ==
    <<"u","1">>

Url2 ==
    <<"u","2">>

Urls ==
    {Url1, Url2}

EntryTypes ==
    {"ol", "rc", "dual"}

\* A data row in the DEFAULT_HEADERS layout from the cells the model uses.
MkRow(r) ==
    [i \in 1..NumCols |->
        CASE i = 1  -> r.school
          [] i = 2  -> r.url
          [] i = 7  -> r.rc_email
          [] i = 8  -> r.ol_email
          [] i = 9  -> r.rc_contacted
          [] i = 10 -> r.ol_contacted
          [] i = 13 -> r.rc_stage
          [] i = 14 -> r.rc_next
          [] i = 15 -> r.ol_stage
          [] i = 16 -> r.ol_next
          [] i = 17 -> r.rc_responded
          [] i = 18 -> r.ol_responded
          [] i = 21 -> r.rc_status
          [] i = 22 -> r.ol_status
          [] OTHER  -> <<>>]

\* A row nobody has contacted yet.
FreshRow(school, url, rc_email, ol_email) ==
    MkRow([school |-> school, url |-> url, rc_email |-> rc_email, ol_email |-> ol_email,
           rc_contacted |-> <<>>, ol_contacted |-> <<>>, rc_stage |-> <<>>,
           rc_next |-> <<>>, ol_stage |-> <<>>, ol_next |-> <<>>,
           rc_responded |-> <<>>, ol_responded |-> <<>>,
           rc_status |-> <<>>, ol_status |-> <<>>])

\* The sheets a run of the system starts from: three coaches in two rows; one
\* coach holding both roles and another coach; one address in two rows.
InitialSheets ==
    { <<FreshRow(School1, Url1, EmailA, EmailC), FreshRow(School2, Url2, <<>>, EmailE)>>,
      <<FreshRow(School1, Url1, EmailARaw, EmailA), FreshRow(School2, Url2, <<>>, EmailC)>>,
      <<FreshRow(School1, Url1, <<>>, EmailA), FreshRow(School2, Url2, EmailA, <<>>)>> }

UrlOf(row) ==
    row[2]

\* The row a coach entry was built from, as the sheet stands.
RowOfEntry(sh, coach) ==
    sh[coach.row_idx - 1]

\* No call through retry_on_error yet.
NoCall ==
    [fn |-> "none", outs |-> <<>>, kind |-> "none", value |-> FALSE, tries |-> 0,
     waits |-> <<>>]

NoneApplied ==
    [fn |-> "none"]

\* No DM batch yet; the fields are the locals of the batch methods of
\* TwitterDMSender, with limit, attempts and sleeps as history.  They stay as
\* the batch left them until the next batch begins.
NoDM ==
    [pc |-> "idle", from_sheet |-> FALSE, coaches |-> <<>>, i |-> 0, sent |-> 0,
     errors |-> 0, skipped |-> 0, limit |-> FALSE, attempts |-> <<>>, sleeps |-> 0]

NoHist ==
    [n |-> 0, day |-> -1, clean |-> TRUE, landed |-> FALSE, stagecell |-> <<>>, intro |-> 0]

Init ==
    /\ headers = DEFAULT_HEADERS
    /\ sheet \in InitialSheets
    /\ today = 0
    /\ daily_count = 0
    /\ last_date = 0
    /\ sent_emails = {}
    /\ conn = "none"
    /\ pc = "idle"
    /\ coaches = <<>>
    /\ idx = 0
    /\ sent = 0
    /\ errors = 0
    /\ skipped = 0
    /\ remaining = 0
    /\ attempts = <<>>
    /\ faults = 0
    /\ budget = MaxFaults
    /\ sleeps = 0
    /\ wrapped = NoCall
    /\ tracker = TwitterDMTracker(DEFAULT_HEADERS, sheet, 0)
    /\ dm = NoDM
    /\ applied = NoneApplied
    /\ hist = [k \in Urls \X EntryTypes |-> NoHist]
    /\ email_log = <<>>
    /\ rt_sent_emails = <<>>
    /\ responses = {}
    /\ inbox = {}
    /\ calls = 0


\* --------------------------------------------------------------------------
\* The environment: SMTP server and sheet API outcomes
\* --------------------------------------------------------------------------

\* str(e) of the exceptions sendmail raises in the runs: classified blocked
\* and invalid, blocked only, invalid only, neither.
ErrBlockedInvalid ==
    <<"5","5","0"," ","5",".","7",".","1"," ","S","p","a","m">>

ErrBlocked ==
    <<"P","o","l","i","c","y">>

ErrInvalid ==
    <<"5","5","3"," ","m","a","i","l","b","o","x">>

ErrOther ==
    <<"t","i","m","e","o","u","t">>

ErrorTexts ==
    {ErrBlockedInvalid, ErrBlocked, ErrInvalid, ErrOther}

NotConnected ==
    <<"N","o","t"," ","c","o","n","n","e","c","t","e","d"," ","t","o"," ","S","M","T","P">>

\* SmartEmailSender.connect(): [ok, conn, cost].  A failure of SMTP() leaves
\* _connection as it was; a failure of starttls() or login() leaves the new,
\* unauthenticated connection object in _connection.
ConnectOutcomes(c, f) ==
    {[ok |-> TRUE, conn |-> "ready", cost |-> 0]}
    \cup (IF f < budget
          THEN {[ok |-> FALSE, conn |-> c, cost |-> 1],
                [ok |-> FALSE, conn |-> "unauth", cost |-> 1]}
          ELSE {})

\* self._connection.sendmail(...) inside send_email: [success, error, conn, cost].
\* An SMTPException disconnects, any other exception does not.
SendmailOutcomes(c, f) ==
    (IF c = "ready" THEN {[success |-> TRUE, error |-> <<>>, conn |-> c, cost |-> 0]} ELSE {})
    \cup (IF c = "unauth"
          THEN {[success |-> FALSE, error |-> e, conn |-> "none", cost |-> 0] : e \in ErrorTexts}
          ELSE {})
    \cup (IF c = "ready" /\ f < budget
          THEN {[success |-> FALSE, error |-> e, conn |-> "none", cost |-> 1] : e \in ErrorTexts}
               \cup {[success |-> FALSE, error |-> ErrOther, conn |-> c, cost |-> 1]}
          ELSE {})

\* SmartEmailSender.send_email(): [success, error, conn, cost]
send_email(c, f) ==
    IF c = "none"
    THEN UNION { IF co.ok
                 THEN SendmailOutcomes(co.conn, f)
                 ELSE {[success |-> FALSE, error |-> NotConnected,
                        conn |-> co.conn, cost |-> co.cost]}
                 : co \in ConnectOutcomes(c, f) }
    ELSE SendmailOutcomes(c, f)

\* How many update_cell calls of a list of k go through before the sheet API
\* raises: k when none raises.
WriteCounts(k, f) ==
    IF f < budget THEN 0..k ELSE {k}

\* --------------------------------------------------------------------------
\* Actions
\* --------------------------------------------------------------------------

\* The clock passes midnight between runs.
Tick ==
    /\ pc = "idle"
    /\ UNCHANGED <<resp, calls>>
    /\ today < MaxDay
    /\ today' = today + 1
    /\ UNCHANGED <<headers, budget, applied, tracker, dm, wrapped, sleeps, sheet, daily_count, last_date, sent_emails, conn, pc, coaches,
                   idx, sent, errors, skipped, remaining, attempts, faults, hist>>

\* send_to_coaches(list, sheet) up to the loop: the daily limit and connect().
\* dc is tracker.get_daily_count().
StartWith(list, dc) ==
    /\ coaches' = list
    /\ daily_count' = dc
    /\ last_date' = today
    /\ remaining' = max_per_day - dc
    /\ attempts' = <<>>
    /\ sleeps' = 0
    /\ idx' = 0
    /\ sent' = 0
    /\ IF max_per_day - dc <= 0
       THEN /\ errors' = 0
            /\ skipped' = Len(list)
            /\ pc' = "return"
            /\ UNCHANGED <<conn, faults>>
       ELSE \E co \in ConnectOutcomes(conn, faults) :
              /\ conn' = co.conn
              /\ faults' = faults + co.cost
              /\ errors' = (IF co.ok THEN 0 ELSE 1)
              /\ skipped' = (IF co.ok THEN 0 ELSE Len(list))
              /\ pc' = (IF ~co.ok THEN "return"
                        ELSE IF Len(list) = 0 THEN "finally" ELSE "loop")

\* EmailTracker.get_daily_count()
get_daily_count ==
    IF last_date # today THEN 0 ELSE daily_count

\* One run: the list is built from the sheet as it stands and handed to
\* send_to_coaches.
StartBatch ==
    /\ pc = "idle"
    /\ UNCHANGED <<resp, calls>>
    /\ StartWith(get_coaches_to_email(sheet, headers, Now), get_daily_count)
    /\ UNCHANGED <<headers, budget, applied, tracker, dm, wrapped, sheet, today, sent_emails, hist>>

\* The stage cells of the entry's role(s) as a builder pass would read them.
StageCells(sh, hdrs, row_idx, type) ==
    LET c   == ColumnsOf[hdrs]
        row == sh[row_idx - 1]
    IN  IF type = "dual" THEN <<CellAt(row, c.rc_stage), CellAt(row, c.ol_stage)>>
        ELSE IF type = "rc" THEN <<CellAt(row, c.rc_stage)>>
        ELSE <<CellAt(row, c.ol_stage)>>

\* Variant: a blocked send is handled like any other failure.
after_blocked_continue(i, list) ==
    [pc |-> IF i + 1 >= Len(list) THEN "finally" ELSE "loop", idx |-> i + 1]

\* if is_blocked: ... break
after_blocked(i, list) ==
    [pc |-> "finally", idx |-> i]

\* pc after an iteration that neither breaks nor raises.
NextPc(i, list) ==
    IF i + 1 >= Len(list) THEN "finally" ELSE "loop"

\* Variant: the limit is noticed one send late.
limit_reached_late(n, quota) ==
    n > quota

\* if sent >= remaining
limit_reached(n, quota) ==
    n >= quota

\* Variant: the address is handed to send_email as it comes.
unchecked_before_send(email) ==
    TRUE

\* email = coach['email'].strip().lower(); if not is_single_valid_email(email)
checked_before_send(email) ==
    is_single_valid_email(email)

\* Variant: no handler around the sheet updates, the exception leaves the loop.
sheet_update_uncaught(next_pc) ==
    "raise"

\* except Exception as e: logger.warning(...) around the sheet updates: the
\* iteration goes on to where it was going.
except_sheet_update(next_pc) ==
    next_pc

\* A loop that goes on to the next coach without sleeping.
delay_skipped(i, list) ==
    0

\* if i < len(coaches) - 1: time.sleep(self.config.delay_seconds)
delay(i, list) ==
    IF i < Len(list) - 1 THEN 1 ELSE 0

\* One entry of the history of send attempts: the loop index, the address
\* handed to send_email, how the attempt was classified, whether every sheet
\* call that followed went through, whether send_email failed to connect, and
\* the sleeps of the batch before the attempt.
Attempt(i, email, outcome, landed, noconn) ==
    [i |-> i, email |-> email, outcome |-> outcome, landed |-> landed,
     noconn |-> noconn, sleeps |-> sleeps]

\* One iteration of the loop of send_to_coaches.
SendStep ==
    /\ pc = "loop"
    /\ UNCHANGED <<resp, calls>>
    /\ idx < Len(coaches)
    /\ LET coach == coaches[idx + 1]
           email == Lower(Strip(coach.email))
       IN  IF limit_reached(sent, remaining) THEN
             /\ skipped' = skipped + (Len(coaches) - idx)
             /\ pc' = "finally"
             /\ UNCHANGED <<sheet, daily_count, sent_emails, conn, idx, sent, errors,
                            attempts, faults, hist, sleeps>>
           ELSE IF ~checked_before_send(email) THEN
             /\ errors' = errors + 1
             /\ idx' = idx + 1
             /\ pc' = NextPc(idx, coaches)
             /\ UNCHANGED <<sheet, daily_count, sent_emails, conn, sent, skipped,
                            attempts, faults, hist, sleeps>>
           ELSE
             \E res \in send_email(conn, faults) :
               /\ conn' = res.conn
               /\ IF res.success THEN
                    LET ws  == SuccessWrites(coach, Now)
                        key == <<UrlOf(RowOfEntry(sheet, coach)), coach.type>>
                    IN  \E n \in WriteCounts(Len(ws), faults + res.cost) :
                          /\ sheet' = ApplyWrites(sheet, ws, n)
                          /\ faults' = faults + res.cost + (IF n < Len(ws) THEN 1 ELSE 0)
                          /\ sent' = sent + 1
                          /\ sent_emails' = sent_emails \cup {email}
                          /\ daily_count' = daily_count + 1
                          /\ attempts' = Append(attempts,
                                Attempt(idx, email, "sent", n = Len(ws), FALSE))
                          /\ hist' = [hist EXCEPT ![key] =
                                        [n         |-> @.n + 1,
                                         day       |-> today,
                                         clean     |-> @.clean /\ n = Len(ws),
                                         landed    |-> n = Len(ws),
                                         stagecell |-> StageCells(sheet', headers,
                                                                  coach.row_idx, coach.type),
                                         intro     |-> @.intro +
                                                       (IF coach.is_followup THEN 0 ELSE 1)]]
                          /\ idx' = idx + 1
                          /\ pc' = (IF n < Len(ws)
                                    THEN except_sheet_update(NextPc(idx, coaches))
                                    ELSE NextPc(idx, coaches))
                          /\ sleeps' = sleeps + (IF pc' = "raise" THEN 0
                                                 ELSE delay(idx, coaches))
                          /\ UNCHANGED <<errors, skipped>>
                  ELSE
                    LET blocked == is_blocked(res.error)
                        invalid == is_invalid_email(res.error)
                        ws      == IF ~blocked /\ invalid THEN InvalidWrites(coach) ELSE <<>>
                        outcome == IF blocked THEN "blocked"
                                   ELSE IF invalid THEN "invalid" ELSE "unknown"
                        noconn  == res.error = NotConnected
                    IN  /\ errors' = errors + 1
                        /\ IF blocked
                           THEN \* sheet.delete_rows(row_num), which may raise
                                /\ \E ok \in (IF faults + res.cost < budget
                                              THEN {TRUE, FALSE} ELSE {TRUE}) :
                                     /\ sheet' = (IF ok THEN delete_rows(sheet, coach.row_idx)
                                                  ELSE sheet)
                                     /\ faults' = faults + res.cost + (IF ok THEN 0 ELSE 1)
                                     /\ attempts' = Append(attempts,
                                           Attempt(idx, email, outcome, ok, noconn))
                                     /\ pc' = (IF ok THEN after_blocked(idx, coaches).pc
                                               ELSE except_sheet_update(
                                                      after_blocked(idx, coaches).pc))
                                /\ idx' = after_blocked(idx, coaches).idx
                                /\ sleeps' = sleeps + (IF pc' = "loop"
                                                       THEN delay(idx, coaches) ELSE 0)
                           ELSE /\ \E n \in WriteCounts(Len(ws), faults + res.cost) :
                                     /\ sheet' = ApplyWrites(sheet, ws, n)
                                     /\ faults' = faults + res.cost
                                                  + (IF n < Len(ws) THEN 1 ELSE 0)
                                     /\ attempts' = Append(attempts,
                                           Attempt(idx, email, outcome, n = Len(ws), noconn))
                                     /\ pc' = (IF n < Len(ws)
                                               THEN except_sheet_update(NextPc(idx, coaches))
                                               ELSE NextPc(idx, coaches))
                                /\ idx' = idx + 1
                                /\ sleeps' = sleeps + (IF pc' = "raise" THEN 0
                                                       ELSE delay(idx, coaches))
                        /\ UNCHANGED <<sent, skipped, sent_emails, daily_count, hist>>
    /\ UNCHANGED <<headers, budget, applied, tracker, dm, wrapped, today, last_date, remaining, coaches>>

\* finally: self.disconnect()
Finally ==
    /\ pc \in {"finally", "raise"}
    /\ UNCHANGED <<resp, calls>>
    /\ conn' = "none"
    /\ pc' = (IF pc = "raise" THEN "raised" ELSE "return")
    /\ UNCHANGED <<headers, budget, applied, tracker, dm, wrapped, sleeps, sheet, today, daily_count, last_date, sent_emails, coaches,
                   idx, sent, errors, skipped, remaining, attempts, faults, hist>>

\* return {'sent': sent, 'errors': errors, 'skipped': skipped}
Return ==
    /\ pc = "return"
    /\ UNCHANGED <<resp, calls>>
    /\ pc' = "idle"
    /\ coaches' = <<>>
    /\ idx' = 0
    /\ sent' = 0
    /\ errors' = 0
    /\ skipped' = 0
    /\ remaining' = 0
    /\ attempts' = <<>>
    /\ sleeps' = 0
    /\ UNCHANGED <<headers, budget, applied, tracker, dm, wrapped, sheet, today, daily_count, last_date, sent_emails, conn,
                   faults, hist>>

Next ==
    \/ Tick
    \/ StartBatch
    \/ SendStep
    \/ Finally
    \/ Return

Spec ==
    Init /\ [][Next]_vars


\* --------------------------------------------------------------------------
\* SheetsManager: responses and follow-up tracking
\* --------------------------------------------------------------------------

\* SheetsConfig.column_map (0-indexed), the entries these operations use.
column_map ==
    [school |-> 0, rc_name |-> 2, ol_name |-> 3, rc_twitter |-> 4, ol_twitter |-> 5,
     rc_twitter_status |-> 18, ol_twitter_status |-> 19,
     rc_contacted |-> 8, ol_contacted |-> 9,
     rc_followup_stage |-> 12, rc_next_contact |-> 13,
     ol_followup_stage |-> 14, ol_next_contact |-> 15,
     rc_responded |-> 16, ol_responded |-> 17]

RECURSIVE ApplySome(_, _, _, _)
\* SheetsManager.update_cell swallows a failure of the API and returns False:
\* of the first n calls of ws, those in ok go through.
ApplySome(sh, ws, ok, n) ==
    IF n = 0 THEN sh
    ELSE LET w    == ws[n]
             prev == ApplySome(sh, ws, ok, n - 1)
         IN  IF n \in ok THEN update_cell(prev, w.row, w.col, w.value) ELSE prev

\* The sets of calls that may go through when f failures were injected so far.
OkSets(k, f) ==
    { ok \in SUBSET (1..k) : k - Cardinality(ok) <= budget - f }

\* SheetsManager.clear_followup: its update_cell calls.
clear_followup(row_index, coach_type) ==
    IF coach_type = "rc"
    THEN <<Write(row_index, column_map.rc_followup_stage + 1, <<>>),
           Write(row_index, column_map.rc_next_contact + 1, <<>>)>>
    ELSE <<Write(row_index, column_map.ol_followup_stage + 1, <<>>),
           Write(row_index, column_map.ol_next_contact + 1, <<>>)>>

\* SheetsManager.mark_responded: its update_cell calls.
mark_responded(row_index, coach_type, date_str) ==
    clear_followup(row_index, coach_type)
    \o <<Write(row_index,
               (IF coach_type = "rc" THEN column_map.rc_responded
                ELSE column_map.ol_responded) + 1,
               date_str)>>

\* int(text) for a text without surrounding whitespace: an optional sign and
\* digits, anything else raises ValueError.
int_of(text) ==
    LET digits == IF Len(text) > 0 /\ text[1] \in {"+", "-"} THEN Tail(text) ELSE text
    IN  IF ~IsDigitStr(digits) THEN [raised |-> TRUE, value |-> 0]
        ELSE [raised |-> FALSE,
              value  |-> IF text[1] = "-" THEN 0 - ToInt(digits) ELSE ToInt(digits)]

\* str(n) for -9 <= n <= 9
IntStr(n) ==
    IF n < 0 THEN <<"-">> \o DigitStr(0 - n) ELSE DigitStr(n)

\* int(self._safe_get(row, stage_col) or '0')
current_stage_of(cell) ==
    IF Len(Strip(cell)) = 0 THEN [raised |-> FALSE, value |-> 0]
    ELSE int_of(Strip(cell))

\* SheetsManager.update_followup: its update_cell calls.
update_followup(row_index, coach_type, stage, next_contact) ==
    IF coach_type = "rc"
    THEN <<Write(row_index, column_map.rc_followup_stage + 1, IntStr(stage)),
           Write(row_index, column_map.rc_next_contact + 1, next_contact)>>
    ELSE <<Write(row_index, column_map.ol_followup_stage + 1, IntStr(stage)),
           Write(row_index, column_map.ol_next_contact + 1, next_contact)>>

\* SheetsManager.mark_contacted_with_followup: its update_cell calls, given
\* the stage cell it read.
mark_contacted_with_followup(row_index, coach_type, is_intro, current_stage, now) ==
    <<Write(row_index,
            (IF coach_type = "rc" THEN column_map.rc_contacted
             ELSE column_map.ol_contacted) + 1,
            strftime(now))>>
    \o update_followup(row_index, coach_type,
                       IF is_intro THEN 0 ELSE Min(current_stage + 1, MAX_STAGE),
                       strftime(AddDays(now, FOLLOWUP_DAYS)))

\* Calls of the manager an operator makes by hand in the runs.
MaxCalls ==
    2

\* Sheet rows an operator may name: the data rows, 1-indexed below the header.
DataRows ==
    2..(Len(sheet) + 1)

\* A call of mark_responded(row_index, coach_type) between runs.
MarkResponded ==
    /\ pc = "idle"
    /\ calls < MaxCalls
    /\ \E row_index \in DataRows, coach_type \in {"rc", "ol"} :
         \E ok \in OkSets(3, faults) :
           /\ sheet' = ApplySome(sheet, mark_responded(row_index, coach_type, strftime(Now)),
                                 ok, 3)
           /\ faults' = faults + (3 - Cardinality(ok))
    /\ UNCHANGED <<headers, budget, applied, tracker, dm, wrapped, sleeps, today, daily_count, last_date, sent_emails, conn, pc, coaches,
                   idx, sent, errors, skipped, remaining, attempts, hist>>
    /\ calls' = calls + 1
    /\ UNCHANGED resp

\* The stage cell mark_contacted_with_followup reads from get_all_data().
StageCellOf(row_index, coach_type) ==
    sheet[row_index - 1][(IF coach_type = "rc" THEN column_map.rc_followup_stage
                          ELSE column_map.ol_followup_stage) + 1]

\* A call of mark_contacted_with_followup(row_index, coach_type, is_intro)
\* between runs.  The sheet is no longer what the sends alone left.
MarkContacted ==
    /\ pc = "idle"
    /\ calls < MaxCalls
    /\ \E row_index \in DataRows, coach_type \in {"rc", "ol"}, is_intro \in BOOLEAN :
         /\ ~current_stage_of(StageCellOf(row_index, coach_type)).raised
         /\ \E ok \in OkSets(3, faults) :
              /\ sheet' = ApplySome(sheet,
                            mark_contacted_with_followup(row_index, coach_type, is_intro,
                               current_stage_of(StageCellOf(row_index, coach_type)).value,
                               Now),
                            ok, 3)
              /\ faults' = faults + (3 - Cardinality(ok))
         /\ hist' = [k \in DOMAIN hist |->
                       IF k[1] = UrlOf(sheet[row_index - 1])
                       THEN [hist[k] EXCEPT !.clean = FALSE, !.landed = FALSE]
                       ELSE hist[k]]
    /\ UNCHANGED <<headers, budget, applied, tracker, dm, wrapped, sleeps, today, daily_count, last_date, sent_emails, conn, pc, coaches,
                   idx, sent, errors, skipped, remaining, attempts>>
    /\ calls' = calls + 1
    /\ UNCHANGED resp

\* --------------------------------------------------------------------------
\* ResponseTracker and the Gmail inbox
\* --------------------------------------------------------------------------

\* record_sent calls the runs make.
MaxLog ==
    2

\* Messages the inbox may hold.
MaxInbox ==
    2

Subjects ==
    {<<"R","e">>, <<"H","i">>}

yes ==
    <<"y","e","s">>

no ==
    <<"n","o">>

\* A row of EmailLog: columns A (coach_email), I (responded), J (response_date).
LogRow(coach_email, responded, response_date) ==
    [coach_email |-> coach_email, responded |-> responded, response_date |-> response_date]

\* ResponseTracker.record_sent(coach_email, ...) for a coach the sender emailed;
\* _save_to_sheets swallows a failure of append_row.
RecordSent ==
    /\ pc = "idle"
    /\ Len(rt_sent_emails) < MaxLog
    /\ \E e \in sent_emails :
         /\ rt_sent_emails' = Append(rt_sent_emails, Lower(Strip(e)))
         /\ \E saved \in (IF faults < budget THEN BOOLEAN ELSE {TRUE}) :
              /\ email_log' = (IF saved
                               THEN Append(email_log, LogRow(Lower(Strip(e)), <<>>, <<>>))
                               ELSE email_log)
              /\ faults' = faults + (IF saved THEN 0 ELSE 1)
    /\ UNCHANGED <<headers, budget, applied, tracker, dm, wrapped, sleeps, sheet, today, daily_count, last_date, sent_emails, conn, pc,
                   coaches, idx, sent, errors, skipped, remaining, attempts, hist,
                   responses, inbox, calls>>

\* A coach the sender emailed writes back.
Reply ==
    /\ pc = "idle"
    /\ Cardinality(inbox) < MaxInbox
    /\ \E e \in sent_emails, s \in Subjects :
         inbox' = inbox \cup {[from |-> e, subject |-> s]}
    /\ UNCHANGED <<headers, budget, applied, tracker, dm, wrapped, sleeps, sheet, today, daily_count, last_date, sent_emails, conn, pc,
                   coaches, idx, sent, errors, skipped, remaining, attempts, faults, hist,
                   email_log, rt_sent_emails, responses, calls>>

\* GmailResponseChecker.check_for_responses: the messages from the addresses
\* searched for; none when the IMAP connection fails.
check_for_responses(coach_emails, imap_ok) ==
    IF imap_ok THEN { msg \in inbox : msg.from \in coach_emails } ELSE {}

\* known_responses, computed once before the loop
known_responses ==
    { <<Lower(r.coach_email), r.subject>> : r \in responses }

\* The raw responses check_gmail_for_responses passes to record_response.
new_responses(raw) ==
    { msg \in raw : <<Lower(msg.from), msg.subject>> \notin known_responses }

\* The first row of EmailLog whose column A is the address; 0 when none.
FirstLogRow(log, coach_email) ==
    IF \E i \in 1..Len(log) : Lower(Strip(log[i].coach_email)) = Lower(Strip(coach_email))
    THEN CHOOSE i \in 1..Len(log) :
           /\ Lower(Strip(log[i].coach_email)) = Lower(Strip(coach_email))
           /\ \A j \in 1..(i - 1) :
                Lower(Strip(log[j].coach_email)) # Lower(Strip(coach_email))
    ELSE 0

\* resp['date'], the Date header of a message, which the runs do not vary.
MsgDate ==
    <<"d">>

\* _mark_responded_in_sheets for every new response: in EmailLog, and nowhere
\* else, the first row of each address gets column I and column J.  lost is
\* the set of addresses whose update the API fails (swallowed).
mark_responded_in_sheets(log, new, lost) ==
    [i \in 1..Len(log) |->
       IF /\ \E msg \in new : FirstLogRow(log, msg.from) = i
          /\ log[i].coach_email \notin lost
       THEN LogRow(log[i].coach_email, yes, MsgDate)
       ELSE log[i]]

\* What check_gmail_for_responses does with the new responses.
RecordResponses(new) ==
    /\ responses' = responses \cup
                      { [coach_email |-> Lower(Strip(msg.from)), subject |-> msg.subject,
                         received_at |-> MsgDate] : msg \in new }
    /\ \E lost \in { l \in SUBSET { msg.from : msg \in new } :
                       Cardinality(l) <= budget - faults } :
         /\ email_log' = mark_responded_in_sheets(email_log, new, lost)
         /\ faults' = faults + Cardinality(lost)

\* The key check_gmail_for_responses knows a response by.
ResponseKey(msg) ==
    <<Lower(msg.from), msg.subject>>

\* History: how many times record_response was called for each key, by the
\* scans so far.
Recorded ==
    IF applied.fn = "check_gmail_for_responses" THEN applied.recorded ELSE <<>>

\* History: what the previous scan got from check_for_responses.
LastRaw ==
    IF applied.fn = "check_gmail_for_responses" THEN applied.raw ELSE {}

\* The scan as kept in applied: what check_for_responses returned to it and to
\* the scan before it, the new_count it returned, and the history with the
\* record_response calls it made.
Scanned(raw, new) ==
    LET keys == { ResponseKey(msg) : msg \in new }
    IN  [fn        |-> "check_gmail_for_responses",
         again     |-> applied.fn = "check_gmail_for_responses",
         prev_raw  |-> LastRaw,
         raw       |-> raw,
         new_count |-> Cardinality(new),
         recorded  |-> [k \in DOMAIN Recorded \cup keys |->
                          (IF k \in DOMAIN Recorded THEN Recorded[k] ELSE 0)
                          + Cardinality({ msg \in new : ResponseKey(msg) = k })]]

\* ResponseTracker.check_gmail_for_responses(email_address, app_password);
\* with keep the scan is kept in applied.
check_gmail_for_responses(keep) ==
    /\ pc = "idle"
    /\ rt_sent_emails # <<>>
    /\ \E imap_ok \in BOOLEAN :
         LET raw == check_for_responses(SeqToSet(rt_sent_emails), imap_ok)
         IN  /\ RecordResponses(new_responses(raw))
             /\ applied' = IF keep THEN Scanned(raw, new_responses(raw)) ELSE applied
    /\ UNCHANGED <<headers, budget, tracker, dm, wrapped, sleeps, sheet, today, daily_count, last_date, sent_emails, conn, pc,
                   coaches, idx, sent, errors, skipped, remaining, attempts, hist,
                   rt_sent_emails, inbox, calls>>

CheckGmail ==
    check_gmail_for_responses(FALSE)

CheckGmailKept ==
    check_gmail_for_responses(TRUE)

\* Record_response calls for one key the runs go up to.
MaxRecorded ==
    2

\* ResponseTracker._load_from_sheets: sent_emails and responses as read from
\* EmailLog; a response is loaded with an empty subject.
rt_load_from_sheets(log) ==
    [sent_emails |-> [i \in 1..Len(log) |-> log[i].coach_email],
     responses   |-> { [coach_email |-> log[i].coach_email, subject |-> <<>>,
                        received_at |-> log[i].response_date] :
                       i \in { j \in 1..Len(log) : Lower(log[j].responded) = yes } }]

\* ResponseTracker(): a new tracker, after a restart of the process.
NewResponseTracker ==
    /\ pc = "idle"
    /\ \A k \in DOMAIN Recorded : Recorded[k] < MaxRecorded
    /\ rt_sent_emails' = rt_load_from_sheets(email_log).sent_emails
    /\ responses' = rt_load_from_sheets(email_log).responses
    /\ UNCHANGED <<headers, budget, applied, tracker, dm, wrapped, sleeps, sheet, today, daily_count, last_date, sent_emails, conn, pc,
                   coaches, idx, sent, errors, skipped, remaining, attempts, faults, hist,
                   email_log, inbox, calls>>

\* Days the runs with responses cover.
RespDays ==
    3

\* The sheets those runs start from: two coaches in one row, and one coach
\* holding both roles.
RespSheets ==
    { <<FreshRow(School1, Url1, EmailA, EmailC)>>,
      <<FreshRow(School1, Url1, EmailARaw, EmailA)>> }

InitWith(day, sheets, b) ==
    /\ headers = DEFAULT_HEADERS
    /\ sheet \in sheets
    /\ today = day
    /\ daily_count = 0
    /\ last_date = 0
    /\ sent_emails = {}
    /\ conn = "none"
    /\ pc = "idle"
    /\ coaches = <<>>
    /\ idx = 0
    /\ sent = 0
    /\ errors = 0
    /\ skipped = 0
    /\ remaining = 0
    /\ attempts = <<>>
    /\ faults = 0
    /\ budget = b
    /\ sleeps = 0
    /\ wrapped = NoCall
    /\ tracker = TwitterDMTracker(DEFAULT_HEADERS, sheet, day)
    /\ dm = NoDM
    /\ applied = NoneApplied
    /\ hist = [k \in Urls \X EntryTypes |-> NoHist]
    /\ email_log = <<>>
    /\ rt_sent_emails = <<>>
    /\ responses = {}
    /\ inbox = {}
    /\ calls = 0

InitAt(day, sheets) ==
    InitWith(day, sheets, MaxFaults)

\* Runs of the sender with an operator who records responses and contacts by
\* hand between them, over the last RespDays days of the clock.
InitResp ==
    InitAt(MaxDay - RespDays, RespSheets)

NextResp ==
    \/ Tick
    \/ StartBatch
    \/ SendStep
    \/ Finally
    \/ Return
    \/ MarkResponded
    \/ MarkContacted

SpecResp ==
    InitResp /\ [][NextResp]_vars

\* Runs of the sender with the response tracker scanning the inbox between
\* them, over the same days.
InitInbox ==
    InitAt(MaxDay - RespDays, RespSheets)

NextInbox ==
    \/ Tick
    \/ StartBatch
    \/ SendStep
    \/ Finally
    \/ Return
    \/ RecordSent
    \/ Reply
    \/ CheckGmail

SpecInbox ==
    InitInbox /\ [][NextInbox]_vars

\* Runs of one day in which the sender sends, coaches reply, the tracker
\* scans the inbox and the process restarts between scans.
InitScan ==
    InitAt(MaxDay, RespSheets)

NextScan ==
    \/ StartBatch
    \/ SendStep
    \/ Finally
    \/ Return
    \/ RecordSent
    \/ Reply
    \/ CheckGmailKept
    \/ NewResponseTracker

SpecScan ==
    InitScan /\ [][NextScan]_vars

\* The same runs without a restart: one tracker.
NextOneTracker ==
    \/ StartBatch
    \/ SendStep
    \/ Finally
    \/ Return
    \/ RecordSent
    \/ Reply
    \/ CheckGmailKept

SpecOneTracker ==
    InitScan /\ [][NextOneTracker]_vars

\* --------------------------------------------------------------------------
\* Runs of one day in which a second failure may follow the first
\* --------------------------------------------------------------------------

\* Cell contents that are not one address: two addresses, and a space inside.
TwoAddresses ==
    <<"a","@","b",".","c","o",";","c","@","d",".","c","o">>

Spaced ==
    <<"a"," ","b","@","c",".","c","o">>

BadAddresses ==
    {TwoAddresses, Spaced}

\* The lists a caller of send_to_coaches may hand in besides the builder's:
\* the builder's list with the address of one entry replaced.
GivenLists(list) ==
    { [list EXCEPT ![j].email = bad] : j \in 1..Len(list), bad \in BadAddresses }

\* send_to_coaches(list, sheet) called with such a list.
StartGiven ==
    /\ pc = "idle"
    /\ UNCHANGED <<resp, calls>>
    /\ \E list \in GivenLists(get_coaches_to_email(sheet, headers, Now)) :
         StartWith(list, get_daily_count)
    /\ UNCHANGED <<headers, budget, applied, tracker, dm, wrapped, sheet, today, sent_emails, hist>>

InitFail ==
    InitWith(MaxDay, InitialSheets, MaxFaults + 1)

NextFail ==
    \/ StartBatch
    \/ StartGiven
    \/ SendStep
    \/ Finally
    \/ Return

SpecFail ==
    InitFail /\ [][NextFail]_vars

\* --------------------------------------------------------------------------
\* TwitterDMSender: send_dm and the two batch loops
\* --------------------------------------------------------------------------

\* TwitterConfig.max_dms_per_day as configured for the runs.
max_dms_per_day ==
    2

HandleA ==
    <<"@","C","a">>

\* The same account as HandleA, as typed into another cell.
HandleAPlain ==
    <<"c","a">>

HandleB ==
    <<"C","b">>

HandleC ==
    <<"c","c">>

OnlyAt ==
    <<"@">>

MessagedNote ==
    <<"M","e","s","s","a","g","e","d"," ","1","/","2">>

Followed ==
    <<"f","o","l","l","o","w","e","d">>

\* A row with Twitter handles and statuses besides the addresses.
TwitterRow(school, url, rc_email, ol_email, rc_twitter, ol_twitter, rc_st, ol_st) ==
    [FreshRow(school, url, rc_email, ol_email) EXCEPT ![5] = rc_twitter, ![6] = ol_twitter,
                                                      ![19] = rc_st, ![20] = ol_st]

\* The sheets the DM runs start from: an account in two cells, one of them
\* already messaged; a cell holding only '@'; a status that mentions
\* 'messaged' without being the word.
DMSheets ==
    { <<TwitterRow(School1, Url1, EmailA, <<>>, HandleA, HandleB, <<>>, <<>>),
        TwitterRow(School2, Url2, <<>>, EmailC, HandleC, HandleAPlain, <<>>, Messaged)>>,
      <<TwitterRow(School1, Url1, EmailA, <<>>, OnlyAt, HandleB, <<>>, <<>>),
        TwitterRow(School2, Url2, <<>>, EmailC, HandleA, HandleC, <<>>, <<>>)>>,
      <<TwitterRow(School1, Url1, EmailA, <<>>, HandleA, HandleAPlain, MessagedNote, <<>>),
        TwitterRow(School2, Url2, <<>>, EmailC, HandleB, HandleC, <<>>, Followed)>> }

\* SheetsManager._safe_get(row, idx)
safe_get(row, col) ==
    IF col < 0 \/ col >= Len(row) THEN <<>> ELSE Strip(row[col + 1])

\* The statuses get_coaches_for_twitter leaves out.
TwitterDoneStatuses ==
    {Messaged, Followed, wrong}

\* The entries get_coaches_for_twitter appends for one row: RC, then OL.
TwitterEntries(row, row_num) ==
    LET school == safe_get(row, column_map.school)
        one(type, tw, responded, status, name) ==
            IF /\ safe_get(row, tw) # <<>>
               /\ safe_get(row, responded) = <<>>
               /\ Lower(safe_get(row, status)) \notin TwitterDoneStatuses
            THEN << [row_index |-> row_num, school |-> school, coach_type |-> type,
                     name |-> safe_get(row, name), handle |-> safe_get(row, tw)] >>
            ELSE <<>>
    IN  IF school = <<>> THEN <<>>
        ELSE one("rc", column_map.rc_twitter, column_map.rc_responded,
                 column_map.rc_twitter_status, column_map.rc_name)
             \o one("ol", column_map.ol_twitter, column_map.ol_responded,
                    column_map.ol_twitter_status, column_map.ol_name)

RECURSIVE twitter_rows(_, _)
twitter_rows(rows, k) ==
    IF k > Len(rows) THEN <<>>
    ELSE TwitterEntries(rows[k], k + 1) \o twitter_rows(rows, k + 1)

\* SheetsManager.get_coaches_for_twitter() on the data rows get_all_data
\* returned (none when the read failed).
get_coaches_for_twitter(rows) ==
    IF Len(rows) < 1 THEN <<>> ELSE twitter_rows(rows, 1)

\* The list a caller of send_to_coaches builds from every handle cell of the
\* sheet, whatever its status.
AllHandles(rows) ==
    get_coaches_for_twitter(
        [j \in 1..Len(rows) |-> [rows[j] EXCEPT ![19] = <<>>, ![20] = <<>>]])

\* SheetsManager.update_twitter_status(row_index, coach_type, status): the
\* update_cell call it makes.
update_twitter_status(row_index, coach_type, status) ==
    Write(row_index,
          (IF coach_type = "rc" THEN column_map.rc_twitter_status
           ELSE column_map.ol_twitter_status) + 1,
          status)

\* TwitterDMSender.send_dm(handle, ...): [success, tracker, cost].  A failure
\* of the browser (not logged in, an element not found) is an outcome the
\* environment injects.
send_dm(t, handle, day, f) ==
    LET h  == LStripAt(handle)
        t1 == dm_get_daily_count(t, day)
    IN  IF has_sent_to(t, h)
        THEN {[success |-> FALSE, tracker |-> t, cost |-> 0]}
        ELSE IF t1.daily_count >= max_dms_per_day
        THEN {[success |-> FALSE, tracker |-> t1, cost |-> 0]}
        ELSE {[success |-> TRUE, tracker |-> mark_sent(t1, h), cost |-> 0]}
             \cup (IF f < budget
                   THEN {[success |-> FALSE, tracker |-> t1, cost |-> 1]}
                   ELSE {})

\* time.sleep(random.uniform(min_delay_seconds, max_delay_seconds)) at the end
\* of an iteration of a DM loop.
dm_delay ==
    1

DMBegin(list, from_sheet) ==
    dm' = [NoDM EXCEPT !.pc = IF Len(list) = 0 THEN "return" ELSE "loop",
                       !.from_sheet = from_sheet,
                       !.coaches = list]

\* send_to_coaches(coaches, template, athlete_info) up to the loop.
DMStart ==
    /\ dm.pc = "idle"
    /\ pc = "idle"
    /\ DMBegin(AllHandles(sheet), FALSE)
    /\ UNCHANGED <<headers, budget, applied, tracker, wrapped, sleeps, sheet, today, daily_count, last_date,
                   sent_emails, conn, pc, coaches, idx, sent, errors, skipped, remaining,
                   attempts, faults, hist, resp, calls>>

\* send_to_coaches_from_sheet(sheets_manager, ...) up to the loop; get_all_data
\* returns [] when the read fails.
DMStartFromSheet ==
    /\ dm.pc = "idle"
    /\ pc = "idle"
    /\ \/ /\ DMBegin(get_coaches_for_twitter(sheet), TRUE)
          /\ UNCHANGED faults
       \/ /\ faults < budget
          /\ DMBegin(get_coaches_for_twitter(<<>>), TRUE)
          /\ faults' = faults + 1
    /\ UNCHANGED <<headers, budget, applied, tracker, wrapped, sleeps, sheet, today, daily_count, last_date,
                   sent_emails, conn, pc, coaches, idx, sent, errors, skipped, remaining,
                   attempts, hist, resp, calls>>

\* dm after iteration i of the loop went on to the next coach.
DMNext(d) ==
    [d EXCEPT !.i = @ + 1,
              !.pc = IF d.i + 1 >= Len(d.coaches) THEN "return" ELSE "loop"]

\* One iteration of the loop of send_to_coaches / send_to_coaches_from_sheet.
DMStep ==
    /\ dm.pc = "loop"
    /\ LET coach  == dm.coaches[dm.i + 1]
           handle == LStripAt(coach.handle)
           t1     == dm_get_daily_count(tracker, today)
       IN  IF handle = <<>>
           THEN /\ dm' = DMNext([dm EXCEPT !.skipped = @ + 1])
                /\ UNCHANGED <<tracker, sheet, faults>>
           ELSE IF t1.daily_count >= max_dms_per_day
           THEN /\ dm' = [dm EXCEPT !.limit = TRUE, !.pc = "return"]
                /\ tracker' = t1
                /\ UNCHANGED <<sheet, faults>>
           ELSE IF has_sent_to(t1, handle)
           THEN /\ dm' = DMNext([dm EXCEPT !.skipped = @ + 1])
                /\ tracker' = t1
                /\ UNCHANGED <<sheet, faults>>
           ELSE \E r \in send_dm(t1, handle, today, faults) :
                  \E wrote \in IF dm.from_sheet /\ r.success /\ faults + r.cost < budget
                               THEN BOOLEAN ELSE {TRUE} :
                    LET w == update_twitter_status(coach.row_index, coach.coach_type,
                                                   Messaged)
                    IN  /\ tracker' = r.tracker
                        /\ sheet' = IF dm.from_sheet /\ r.success /\ wrote
                                    THEN update_cell(sheet, w.row, w.col, w.value)
                                    ELSE sheet
                        /\ faults' = faults + r.cost + (IF wrote THEN 0 ELSE 1)
                        /\ dm' = DMNext(
                                   [dm EXCEPT
                                      !.sent = @ + (IF r.success THEN 1 ELSE 0),
                                      !.errors = @ + (IF r.success THEN 0 ELSE 1),
                                      !.attempts = Append(@, [i |-> dm.i, handle |-> handle,
                                                              ok |-> r.success,
                                                              sleeps |-> dm.sleeps]),
                                      !.sleeps = @ + dm_delay])
    /\ UNCHANGED <<headers, budget, applied, wrapped, sleeps, today, daily_count, last_date,
                   sent_emails, conn, pc, coaches, idx, sent, errors, skipped, remaining,
                   attempts, hist, resp, calls>>

\* The summary the batch methods return.
DMSummary ==
    [sent |-> dm.sent, errors |-> dm.errors, skipped |-> dm.skipped,
     daily_total |-> dm_get_daily_count(tracker, today).daily_count]

\* return {'sent': ..., 'daily_total': self.tracker.get_daily_count()}
DMReturn ==
    /\ dm.pc = "return"
    /\ tracker' = dm_get_daily_count(tracker, today)
    /\ dm' = [dm EXCEPT !.pc = "idle"]
    /\ UNCHANGED <<headers, budget, applied, wrapped, sleeps, sheet, today, daily_count, last_date,
                   sent_emails, conn, pc, coaches, idx, sent, errors, skipped, remaining,
                   attempts, faults, hist, resp, calls>>

\* TwitterDMSender(): a new sender, whose tracker loads from the sheet.
NewSender ==
    /\ dm.pc = "idle"
    /\ pc = "idle"
    /\ tracker' = TwitterDMTracker(headers, sheet, today)
    /\ tracker' # tracker
    /\ UNCHANGED <<headers, budget, applied, dm, wrapped, sleeps, sheet, today, daily_count, last_date,
                   sent_emails, conn, pc, coaches, idx, sent, errors, skipped, remaining,
                   attempts, faults, hist, resp, calls>>

\* Runs of the DM batches over two days.
InitDM ==
    InitWith(MaxDay - 1, DMSheets, MaxFaults)

NextDM ==
    \/ Tick
    \/ NewSender
    \/ DMStart
    \/ DMStartFromSheet
    \/ DMStep
    \/ DMReturn

SpecDM ==
    InitDM /\ [][NextDM]_vars

\* The handles a caller passes to send_dm directly.
CallHandles ==
    {HandleA, HandleAPlain, HandleB}

\* send_dm(handle, message) called outside a batch; the call is kept as the
\* one attempt of dm.
SendDM ==
    /\ dm.pc = "idle"
    /\ pc = "idle"
    /\ \E handle \in CallHandles :
         \E r \in send_dm(tracker, handle, today, faults) :
           /\ tracker' = r.tracker
           /\ faults' = faults + r.cost
           /\ dm' = [NoDM EXCEPT !.sent = IF r.success THEN 1 ELSE 0,
                                 !.errors = IF r.success THEN 0 ELSE 1,
                                 !.attempts = <<[i |-> 0, handle |-> LStripAt(handle),
                                                 ok |-> r.success, sleeps |-> 0]>>]
    /\ UNCHANGED <<headers, budget, applied, wrapped, sleeps, sheet, today, daily_count, last_date,
                   sent_emails, conn, pc, coaches, idx, sent, errors, skipped, remaining,
                   attempts, hist, resp, calls>>

\* Runs of one sender, and so of one tracker, over two days: direct calls of
\* send_dm and batches of either kind.
NextTracker ==
    \/ Tick
    \/ SendDM
    \/ DMStart
    \/ DMStartFromSheet
    \/ DMStep
    \/ DMReturn

SpecTracker ==
    InitDM /\ [][NextTracker]_vars

\* Runs of one day with email batches and DM batches, one batch at a time,
\* in which a second failure may follow the first.
InitSeq ==
    InitWith(MaxDay, DMSheets, MaxFaults + 1)

NextSeq ==
    \/ DMStart
    \/ DMStartFromSheet
    \/ DMStep
    \/ DMReturn
    \/ dm.pc = "idle" /\ StartBatch
    \/ dm.pc = "idle" /\ SendStep
    \/ Finally
    \/ Return

SpecSeq ==
    InitSeq /\ [][NextSeq]_vars

\* --------------------------------------------------------------------------
\* Runs of the sender on a sheet in either column order
\* --------------------------------------------------------------------------

LayoutDays ==
    3

\* The initial sheets in the column order of the header row.
SheetsIn(hdrs) ==
    IF hdrs = DEFAULT_HEADERS THEN InitialSheets
    ELSE { [j \in 1..Len(sh) |-> Relaid(sh[j])] : sh \in InitialSheets }

InitLayout ==
    /\ headers \in HeaderLayouts
    /\ sheet \in SheetsIn(headers)
    /\ today = MaxDay - LayoutDays
    /\ daily_count = 0
    /\ last_date = 0
    /\ sent_emails = {}
    /\ conn = "none"
    /\ pc = "idle"
    /\ coaches = <<>>
    /\ idx = 0
    /\ sent = 0
    /\ errors = 0
    /\ skipped = 0
    /\ remaining = 0
    /\ attempts = <<>>
    /\ faults = 0
    /\ budget = MaxFaults
    /\ sleeps = 0
    /\ wrapped = NoCall
    /\ tracker = TwitterDMTracker(headers, sheet, today)
    /\ dm = NoDM
    /\ applied = NoneApplied
    /\ hist = [k \in Urls \X EntryTypes |-> NoHist]
    /\ email_log = <<>>
    /\ rt_sent_emails = <<>>
    /\ responses = {}
    /\ inbox = {}
    /\ calls = 0

NextLayout ==
    \/ Tick
    \/ StartBatch
    \/ SendStep
    \/ Finally
    \/ Return

SpecLayout ==
    InitLayout /\ [][NextLayout]_vars

\* --------------------------------------------------------------------------
\* find_col applied to header rows and keyword lists
\* --------------------------------------------------------------------------

MaxHeaders ==
    3

HeaderTexts ==
    { <<" ","R","C"," ","S","t","a","g","e"," ">>, <<"O","L"," ","S","t","a","g","e">>, <<"r","c"," ","s","t","a","g","e"," ","n","o","t","e","s">>, <<"S","c","h","o","o","l">> }

KeywordLists ==
    { <<>>,
      << <<"r","c"," ","s","t","a","g","e">> >>,
      << <<"o","l"," ","s","t","a","g","e">> >>,
      << <<"r","c"," ","s","t","a","g","e">>, <<"o","l"," ","s","t","a","g","e">> >>,
      << <<"o","l"," ","s","t","a","g","e">>, <<"r","c"," ","s","t","a","g","e">> >>,
      << <<"n","o","t","e","s">>, <<"s","t","a","g","e">> >>,
      << <<"e","m","a","i","l">> >> }

HeaderRows ==
    UNION { [1..n -> HeaderTexts] : n \in 0..MaxHeaders }

\* The state in which a function or a script is applied on its own to a
\* header row of hs and a sheet of sheets, with b failures of the API to come.
InitApplyOn(hs, sheets, b) ==
    /\ headers \in hs
    /\ sheet \in sheets
    /\ today = 0
    /\ daily_count = 0
    /\ last_date = 0
    /\ sent_emails = {}
    /\ conn = "none"
    /\ pc = "idle"
    /\ coaches = <<>>
    /\ idx = 0
    /\ sent = 0
    /\ errors = 0
    /\ skipped = 0
    /\ remaining = 0
    /\ attempts = <<>>
    /\ faults = 0
    /\ budget \in b
    /\ sleeps = 0
    /\ wrapped = NoCall
    /\ tracker = TwitterDMTracker(headers, <<>>, today)
    /\ dm = NoDM
    /\ applied = NoneApplied
    /\ hist = [k \in Urls \X EntryTypes |-> NoHist]
    /\ email_log = <<>>
    /\ rt_sent_emails = <<>>
    /\ responses = {}
    /\ inbox = {}
    /\ calls = 0

InitApply(hs) ==
    InitApplyOn(hs, {<<>>}, {0})

InitFind ==
    InitApply(HeaderRows)

\* find_col(keywords) on the header row.
FindCol ==
    /\ \E keywords \in KeywordLists :
         applied' = [fn |-> "find_col", keywords |-> keywords,
                     result |-> find_col(headers, keywords)]
    /\ UNCHANGED <<headers, budget, tracker, dm, wrapped, sleeps, sheet, today, daily_count,
                   last_date, sent_emails, conn, pc, coaches, idx, sent, errors, skipped,
                   remaining, attempts, faults, hist, resp, calls>>

NextFind ==
    FindCol

SpecFind ==
    InitFind /\ [][NextFind]_vars

\* --------------------------------------------------------------------------
\* clean_email applied to cells holding several addresses
\* --------------------------------------------------------------------------

\* The first address of a cell as typed, and the addresses that follow it.
FirstAddresses ==
    { EmailA, EmailARaw, EmailC, <<"b","a","d">> }

LaterAddresses ==
    { EmailC, EmailE, <<"x","@","y">> }

Separators ==
    { <<",">>, <<";">>, <<"\n">>, <<","," ">>, <<";"," ">> }

RECURSIVE Joined(_, _)
\* parts[1] seps[1] parts[2] seps[2] ... as one cell.
Joined(parts, seps) ==
    IF Len(parts) <= 1 THEN (IF Len(parts) = 0 THEN <<>> ELSE parts[1])
    ELSE parts[1] \o seps[1] \o Joined(Tail(parts), Tail(seps))

\* The cells: two or three addresses and the separators between them.
JoinedCells ==
    { [parts |-> <<a, b>>, seps |-> <<s1>>] :
        a \in FirstAddresses, b \in LaterAddresses, s1 \in Separators }
    \cup
    { [parts |-> <<a, b, EmailE>>, seps |-> <<s1, s2>>] :
        a \in FirstAddresses, b \in LaterAddresses, s1 \in Separators, s2 \in Separators }

InitClean ==
    InitApply({DEFAULT_HEADERS})

\* clean_email(cell) on such a cell.
CleanEmail ==
    /\ \E c \in JoinedCells :
         applied' = [fn |-> "clean_email", parts |-> c.parts, seps |-> c.seps,
                     result |-> clean_email(Joined(c.parts, c.seps))]
    /\ UNCHANGED <<headers, budget, tracker, dm, wrapped, sleeps, sheet, today, daily_count,
                   last_date, sent_emails, conn, pc, coaches, idx, sent, errors, skipped,
                   remaining, attempts, faults, hist, resp, calls>>

NextClean ==
    CleanEmail

SpecClean ==
    InitClean /\ [][NextClean]_vars

\* --------------------------------------------------------------------------
\* mark_contacted_with_followup beside the sender, on one coach
\* --------------------------------------------------------------------------

MarkDays ==
    2

\* What the stage cell may hold: nothing, digits, digits in spaces, a stage
\* beyond the last, a signed number, other text.
StageTexts ==
    { <<>>, <<"0">>, <<"1">>, <<"2">>, <<" ","1"," ">>, <<"9">>, <<"-","1">>, <<"-","5">>, <<"x">>, <<"1",".","0">> }

\* The row of one coach in the given role: contacted before unless the send
\* is an intro, with the stage cell given and a next-contact date that is due.
MarkRow(role, is_intro, cell) ==
    LET contacted == IF is_intro THEN <<>> ELSE <<"x">>
        due       == IF is_intro THEN <<>> ELSE strftime(StartDate)
        none      == <<>>
    IN  MkRow([school |-> School1, url |-> Url1,
               rc_email     |-> IF role = "rc" THEN EmailA ELSE none,
               ol_email     |-> IF role = "ol" THEN EmailA ELSE none,
               rc_contacted |-> IF role = "rc" THEN contacted ELSE none,
               ol_contacted |-> IF role = "ol" THEN contacted ELSE none,
               rc_stage     |-> IF role = "rc" THEN cell ELSE none,
               rc_next      |-> IF role = "rc" THEN due ELSE none,
               ol_stage     |-> IF role = "ol" THEN cell ELSE none,
               ol_next      |-> IF role = "ol" THEN due ELSE none,
               rc_responded |-> none, ol_responded |-> none,
               rc_status |-> none, ol_status |-> none])

\* The update_cell calls of the sender after a successful send to the coach
\* of the row, as the builder lists the coach.
SenderWrites(row, now) ==
    LET list == get_coaches_to_email(<<row>>, DEFAULT_HEADERS, now)
    IN  IF Len(list) = 0 THEN <<>> ELSE SuccessWrites(list[1], now)

\* The stage cell mark_contacted_with_followup reads for the role.
ManagerStage(row, role) ==
    current_stage_of(safe_get(row, IF role = "rc" THEN column_map.rc_followup_stage
                                   ELSE column_map.ol_followup_stage))

\* The update_cell calls of mark_contacted_with_followup(2, role, is_intro) on
\* the row, none when int() raises.
ManagerWrites(row, role, is_intro, now) ==
    IF ManagerStage(row, role).raised THEN <<>>
    ELSE mark_contacted_with_followup(2, role, is_intro,
                                      ManagerStage(row, role).value, now)

InitMark ==
    InitApply({DEFAULT_HEADERS})

\* The two ways of recording a send, on the same row and day.
MarkBoth ==
    /\ \E role \in {"rc", "ol"}, is_intro \in BOOLEAN, cell \in StageTexts,
          d \in 0..MarkDays :
         LET now == AddDays(StartDate, d)
             row == MarkRow(role, is_intro, cell)
         IN  applied' = [fn |-> "mark_contacted_with_followup", role |-> role,
                         is_intro |-> is_intro, cell |-> cell, day |-> d,
                         raised  |-> ManagerStage(row, role).raised,
                         manager |-> ManagerWrites(row, role, is_intro, now),
                         sender  |-> SenderWrites(row, now)]
    /\ UNCHANGED <<headers, budget, tracker, dm, wrapped, sleeps, sheet, today, daily_count,
                   last_date, sent_emails, conn, pc, coaches, idx, sent, errors, skipped,
                   remaining, attempts, faults, hist, resp, calls>>

NextMark ==
    MarkBoth

SpecMark ==
    InitMark /\ [][NextMark]_vars

\* --------------------------------------------------------------------------
\* scripts/deduplicate_schools.py
\* --------------------------------------------------------------------------

\* Python values of has_contacted_data: False, or a string.
PyFalse ==
    [str |-> FALSE, text |-> <<>>]

PyStr(text) ==
    [str |-> TRUE, text |-> text]

\* bool(v)
Truthy(v) ==
    v.str /\ v.text # <<>>

\* a or b
PyOr(a, b) ==
    IF Truthy(a) THEN a ELSE b

\* int(v): int(False) is 0, int of a string is its number or ValueError.
py_int(v) ==
    IF v.str THEN int_of(v.text) ELSE [raised |-> FALSE, value |-> 0]

\* The last index the loop of has_contacted_data leaves in a variable; 0
\* stands for None.
LastOf(S) ==
    IF S = {} THEN 0 ELSE CHOOSE i \in S : \A j \in S : j <= i

rc_contacted_idx(hdrs) ==
    LastOf({ i \in 1..Len(hdrs) : Contains(Lower(hdrs[i]), <<"r","c"," ","c","o","n","t","a","c","t","e","d">>) })

ol_contacted_idx(hdrs) ==
    LastOf({ i \in 1..Len(hdrs) : /\ ~Contains(Lower(hdrs[i]), <<"r","c"," ","c","o","n","t","a","c","t","e","d">>)
                                  /\ Contains(Lower(hdrs[i]), <<"o","l"," ","c","o","n","t","a","c","t","e","d">>) })

\* has_contacted_data(row, headers), given the two indices.
has_contacted_data(row, rc_idx, ol_idx) ==
    LET has_rc == IF rc_idx # 0 /\ rc_idx <= Len(row) THEN PyStr(Strip(row[rc_idx]))
                  ELSE PyFalse
        has_ol == IF ol_idx # 0 /\ ol_idx <= Len(row) THEN PyStr(Strip(row[ol_idx]))
                  ELSE PyFalse
    IN  PyOr(has_rc, has_ol)

\* count_non_empty(row)
count_non_empty(row) ==
    Cardinality({ c \in 1..Len(row) : Strip(row[c]) # <<>> })

\* The school column: the first header that contains 'school'; 0 for None.
school_col(hdrs) ==
    LET S == { i \in 1..Len(hdrs) : Contains(Lower(hdrs[i]), <<"s","c","h","o","o","l">>) }
    IN  IF S = {} THEN 0 ELSE CHOOSE i \in S : \A j \in S : i <= j

\* row[school_col].strip().lower()
school_name(row, col) ==
    IF col <= Len(row) THEN Lower(Strip(row[col])) ELSE <<>>

\* The entries of schools[name]: the data rows of the name, as indices into
\* rows (row_idx is the index + 1).
Entries(rows, col, name) ==
    { j \in 1..Len(rows) : school_name(rows[j], col) = name }

\* The names with more than one row.
duplicates(rows, col) ==
    { name \in { school_name(rows[j], col) : j \in 1..Len(rows) } :
        name # <<>> /\ Cardinality(Entries(rows, col, name)) > 1 }

\* The sort key of an entry: (-int(has_contacted), -non_empty_count).
SortKey(row, rc_idx, ol_idx) ==
    <<0 - py_int(has_contacted_data(row, rc_idx, ol_idx)).value, 0 - count_non_empty(row)>>

KeyBefore(a, b) ==
    a[1] < b[1] \/ (a[1] = b[1] /\ a[2] < b[2])

\* dupe_rows[0] after the stable sort: the first entry no entry sorts before.
keep_row(rows, E, rc_idx, ol_idx) ==
    LET best == { j \in E : \A k \in E :
                    ~KeyBefore(SortKey(rows[k], rc_idx, ol_idx),
                               SortKey(rows[j], rc_idx, ol_idx)) }
    IN  CHOOSE j \in best : \A k \in best : j <= k

\* The header row with the contacted columns under other names.
SENT_HEADERS ==
    [DEFAULT_HEADERS EXCEPT ![9] = <<"R","C"," ","S","e","n","t">>, ![10] = <<"O","L"," ","S","e","n","t">>]

DedupHeaders ==
    {DEFAULT_HEADERS, SENT_HEADERS}

\* The three columns the script looks up, for each header row, computed once.
DedupColumnsOf ==
    [h \in DedupHeaders |-> [school |-> school_col(h), rc |-> rc_contacted_idx(h),
                             ol |-> ol_contacted_idx(h)]]

\* rows_to_delete, as sheet row numbers.
rows_to_delete(rows, hdrs) ==
    LET col == DedupColumnsOf[hdrs].school
        rc  == DedupColumnsOf[hdrs].rc
        ol  == DedupColumnsOf[hdrs].ol
    IN  UNION { { j + 1 : j \in Entries(rows, col, name)
                                \ {keep_row(rows, Entries(rows, col, name), rc, ol)} } :
                name \in duplicates(rows, col) }

\* The sort raises when int() rejects has_contacted of a row it sorts.
sort_raises(rows, hdrs) ==
    LET col == DedupColumnsOf[hdrs].school
        rc  == DedupColumnsOf[hdrs].rc
        ol  == DedupColumnsOf[hdrs].ol
    IN  \E name \in duplicates(rows, col) : \E j \in Entries(rows, col, name) :
          py_int(has_contacted_data(rows[j], rc, ol)).raised

RECURSIVE DeleteDescending(_, _, _)
\* rows_to_delete.sort(reverse=True) and the loop of delete_rows calls; the
\* calls for the rows of lost raise, which the loop catches.
DeleteDescending(sh, S, lost) ==
    IF S = {} THEN sh
    ELSE LET top == CHOOSE i \in S : \A j \in S : j <= i
         IN  DeleteDescending(IF top \in lost THEN sh ELSE delete_rows(sh, top),
                              S \ {top}, lost)

\* The same school as typed on another row.
School1Typed ==
    <<" ","s","1">>

ContactedTexts ==
    { <<>>, strftime(StartDate), <<"1">> }

\* The rows the sheets are made of; rows of one school differ in what they
\* hold.
DedupRows ==
    { MkRow([school |-> sc, url |-> Url1, rc_email |-> x[1], ol_email |-> <<>>,
             rc_contacted |-> x[2], ol_contacted |-> <<>>, rc_stage |-> <<>>,
             rc_next |-> <<>>, ol_stage |-> <<>>, ol_next |-> <<>>,
             rc_responded |-> <<>>, ol_responded |-> <<>>,
             rc_status |-> <<>>, ol_status |-> <<>>]) :
        sc \in {School1, School1Typed, School2},
        x \in ({<<>>, EmailA} \X {<<>>}) \cup ({<<>>} \X ContactedTexts) }

MaxDedupRows ==
    3

DedupSheets ==
    [1..MaxDedupRows -> DedupRows]

InitDedup ==
    InitApplyOn(DedupHeaders, DedupSheets, {MaxFaults})

\* main() of the script, with the answer typed at the prompt.
Dedup ==
    /\ applied.fn = "none"
    /\ IF \/ Len(sheet) < 1
          \/ DedupColumnsOf[headers].school = 0
          \/ duplicates(sheet, DedupColumnsOf[headers].school) = {}
       THEN /\ applied' = [fn |-> "deduplicate_schools", before |-> sheet, raised |-> FALSE,
                           asked |-> FALSE, answer |-> <<>>, lost |-> {}]
            /\ UNCHANGED <<sheet, faults>>
       ELSE IF sort_raises(sheet, headers)
       THEN /\ applied' = [fn |-> "deduplicate_schools", before |-> sheet, raised |-> TRUE,
                           asked |-> FALSE, answer |-> <<>>, lost |-> {}]
            /\ UNCHANGED <<sheet, faults>>
       ELSE LET doomed == rows_to_delete(sheet, headers)
            IN  \E answer \in {yes, no} :
              \E lost \in { l \in SUBSET doomed :
                               Cardinality(l) <= (IF answer = yes THEN budget - faults ELSE 0) } :
                /\ sheet' = IF answer = yes
                            THEN DeleteDescending(sheet, doomed, lost)
                            ELSE sheet
                /\ faults' = faults + Cardinality(lost)
                /\ applied' = [fn |-> "deduplicate_schools", before |-> sheet,
                               raised |-> FALSE, asked |-> TRUE, answer |-> answer,
                               lost |-> lost]
    /\ UNCHANGED <<headers, budget, tracker, dm, wrapped, sleeps, today, daily_count,
                   last_date, sent_emails, conn, pc, coaches, idx, sent, errors, skipped,
                   remaining, attempts, hist, resp, calls>>

NextDedup ==
    Dedup

SpecDedup ==
    InitDedup /\ [][NextDedup]_vars

\* --------------------------------------------------------------------------
\* The builder on its own: one pass over a sheet drawn from sample rows
\* --------------------------------------------------------------------------

\* The day of the pass, in days since StartDate.
BuildDay ==
    5

PastStr ==
    strftime(AddDays(StartDate, BuildDay - 1))

TodayStr ==
    strftime(AddDays(StartDate, BuildDay))

FutureStr ==
    strftime(AddDays(StartDate, BuildDay + FOLLOWUP_DAYS))

Garbage ==
    <<"s","o","o","n">>

\* Cells of one role: contacted, stage, next contact, responded, email status.
RoleCells(contacted, stage, next, responded, status) ==
    [contacted |-> contacted, stage |-> stage, next |-> next,
     responded |-> responded, status |-> status]

RoleSamples ==
    { RoleCells(ct, IF ct = <<"x">> THEN <<"1">> ELSE <<>>, nx, rs, st) :
        ct \in {<<>>, <<"n","o">>, <<"x">>},
        nx \in {<<>>, TodayStr, FutureStr},
        rs \in {<<>>, <<"y","e","s">>},
        st \in {<<>>, <<"W","r","o","n","g">>} }
    \cup { RoleCells(<<"x">>, <<"2">>, PastStr, <<>>, <<"o","k">>),
           RoleCells(<<"x">>, <<"x">>, Garbage, <<" ">>, <<>>),
           RoleCells(PastStr, <<" ","1">>, <<"1","/","5","/","2","0","2","6">>, <<>>, <<>>) }

\* (RC email cell, OL email cell) of the row under test.
EmailPairs ==
    { <<EmailA, EmailC>>, <<EmailA, <<>>>>, <<<<>>, EmailC>>,
      <<EmailARaw, EmailA>>, <<EmailC, EmailC>>,
      <<<<"a","@","b">>, EmailA>> }

SampleRow(school, url, emails, rc, ol) ==
    MkRow([school |-> school, url |-> url, rc_email |-> emails[1], ol_email |-> emails[2],
           rc_contacted |-> rc.contacted, ol_contacted |-> ol.contacted,
           rc_stage |-> rc.stage, rc_next |-> rc.next,
           ol_stage |-> ol.stage, ol_next |-> ol.next,
           rc_responded |-> rc.responded, ol_responded |-> ol.responded,
           rc_status |-> rc.status, ol_status |-> ol.status])

Untouched ==
    RoleCells(<<>>, <<>>, <<>>, <<>>, <<>>)

\* Rows that come before the row under test: one without a school, one that
\* emits EmailA, one that holds EmailA but is contacted and not due, and one
\* that emits EmailC as a dual entry.
OtherRows ==
    { SampleRow(<<" ">>, Url1, <<<<>>, EmailA>>, Untouched, Untouched),
      SampleRow(School1, Url1, <<<<>>, EmailA>>, Untouched, Untouched),
      SampleRow(School1, Url1, <<<<>>, EmailA>>, Untouched,
                RoleCells(<<"x">>, <<"1">>, FutureStr, <<>>, <<>>)),
      SampleRow(School1, Url1, <<EmailC, EmailC>>, Untouched, Untouched) }

TestedRows ==
    { SampleRow(School2, Url2, em, rc, ol) :
        em \in EmailPairs, rc \in RoleSamples, ol \in RoleSamples }

InitBuild ==
    /\ headers = DEFAULT_HEADERS
    /\ sheet \in { <<o, t>> : o \in OtherRows, t \in TestedRows }
    /\ today = BuildDay
    /\ daily_count = 0
    /\ last_date = 0
    /\ sent_emails = {}
    /\ conn = "none"
    /\ pc = "idle"
    /\ coaches = <<>>
    /\ idx = 0
    /\ sent = 0
    /\ errors = 0
    /\ skipped = 0
    /\ remaining = 0
    /\ attempts = <<>>
    /\ faults = 0
    /\ budget = MaxFaults
    /\ sleeps = 0
    /\ wrapped = NoCall
    /\ tracker = TwitterDMTracker(DEFAULT_HEADERS, sheet, BuildDay)
    /\ dm = NoDM
    /\ applied = NoneApplied
    /\ hist = [k \in Urls \X EntryTypes |-> NoHist]
    /\ email_log = <<>>
    /\ rt_sent_emails = <<>>
    /\ responses = {}
    /\ inbox = {}
    /\ calls = 0

\* coaches = sender.get_coaches_to_email(data[1:], data[0])
BuildPass ==
    /\ pc = "idle"
    /\ UNCHANGED <<resp, calls>>
    /\ coaches' = get_coaches_to_email(sheet, headers, Now)
    /\ pc' = "built"
    /\ UNCHANGED <<headers, budget, applied, tracker, dm, wrapped, sleeps, sheet, today, daily_count, last_date, sent_emails, conn,
                   idx, sent, errors, skipped, remaining, attempts, faults, hist>>

NextBuild ==
    BuildPass

SpecBuild ==
    InitBuild /\ [][NextBuild]_vars


\* --------------------------------------------------------------------------
\* retry_on_error and the SheetsManager methods it wraps
\* --------------------------------------------------------------------------

\* @retry_on_error(max_retries=3)
MAX_RETRIES ==
    3

\* delay: float = 1.0
RETRY_DELAY ==
    1

RECURSIVE Pow2(_)
Pow2(n) ==
    IF n = 0 THEN 1 ELSE 2 * Pow2(n - 1)

\* What one call of the gspread worksheet may do: succeed, raise an APIError
\* with a 429/quota text, raise another APIError, raise another
\* GSpreadException, raise anything else.
ApiOutcomes ==
    {"ok", "rate_limited", "api_error", "gspread_error", "error"}

WrappedMethods ==
    {"update_cell", "get_all_data", "delete_row"}

\* The body of update_cell, get_all_data and delete_row with self._sheet set:
\* the worksheet call in try, except Exception: log, count, return False (or
\* []).  What the body hands to the wrapper.
wrapped_body(fn, o) ==
    [kind |-> "return", value |-> (o = "ok"), exc |-> "none"]

RECURSIVE retry_on_error(_, _, _, _)
\* wrapper(*args): the for loop from the given attempt on, outs[k] being what
\* the worksheet does on the k-th call.  [kind, value, tries, waits]
retry_on_error(fn, outs, attempt, waits) ==
    IF attempt >= MAX_RETRIES
    THEN [kind |-> "raise", value |-> FALSE, tries |-> attempt, waits |-> waits]
    ELSE LET r == wrapped_body(fn, outs[attempt + 1])
         IN  IF r.kind = "return"
             THEN [kind |-> "return", value |-> r.value, tries |-> attempt + 1,
                   waits |-> waits]
             ELSE IF r.exc = "rate_limited"
             THEN retry_on_error(fn, outs, attempt + 1,
                                 Append(waits, RETRY_DELAY * Pow2(attempt)))
             ELSE IF r.exc \in {"api_error", "gspread_error"} /\ attempt < MAX_RETRIES - 1
             THEN retry_on_error(fn, outs, attempt + 1, Append(waits, RETRY_DELAY))
             ELSE [kind |-> "raise", value |-> FALSE, tries |-> attempt + 1,
                   waits |-> waits]

\* The worksheet calls of the first n that did not succeed.
Failed(outs, n) ==
    Cardinality({ k \in 1..n : outs[k] # "ok" })

\* The cell values an operator writes in those calls.
CallValues ==
    { <<"x">>, <<>> }

\* What the worksheet holds after the call when its last try succeeded.
AfterCall(fn, row, col, value) ==
    IF fn = "update_cell" THEN update_cell(sheet, row, col, value)
    ELSE IF fn = "delete_row" THEN delete_rows(sheet, row)
    ELSE sheet

\* One call of SheetsManager.update_cell, get_all_data or delete_row.
SheetsCall ==
    /\ pc = "idle"
    /\ calls < MaxCalls
    /\ \E fn \in WrappedMethods, outs \in [1..MAX_RETRIES -> ApiOutcomes],
          row \in DataRows, col \in {column_map.rc_contacted + 1, column_map.ol_contacted + 1},
          value \in CallValues :
         LET res == retry_on_error(fn, outs, 0, <<>>)
         IN  /\ faults + Failed(outs, res.tries) <= budget
             /\ \A k \in (res.tries + 1)..MAX_RETRIES : outs[k] = "ok"
             /\ faults' = faults + Failed(outs, res.tries)
             /\ wrapped' = [fn |-> fn, outs |-> outs, kind |-> res.kind,
                            value |-> res.value, tries |-> res.tries, waits |-> res.waits]
             /\ sheet' = (IF res.kind = "return" /\ res.value
                          THEN AfterCall(fn, row, col, value) ELSE sheet)
    /\ calls' = calls + 1
    /\ UNCHANGED <<headers, budget, applied, tracker, dm, sleeps, today, daily_count, last_date, sent_emails, conn,
                   pc, coaches, idx, sent, errors, skipped, remaining, attempts, hist>>
    /\ UNCHANGED resp

InitRetry ==
    InitWith(0, InitialSheets, MAX_RETRIES)

NextRetry ==
    SheetsCall

SpecRetry ==
    InitRetry /\ [][NextRetry]_vars


\* --------------------------------------------------------------------------
\* Properties of one builder pass
\* --------------------------------------------------------------------------

\* The cells of sheet row r as the pass reads and classifies them.
FactsOf(r) ==
    RowFacts(sheet[r], ColumnsOf[headers], Now)

\* Sheet row r is reported as row_idx r + 1 (the header is row 1).
EntriesOf(r) ==
    { i \in 1..Len(coaches) : coaches[i].row_idx = r + 1 }

EmittedFor(r, type, email) ==
    \E i \in EntriesOf(r) : coaches[i].type = type /\ coaches[i].email = email

EmittedEarlier(r, email) ==
    \E i \in 1..Len(coaches) : coaches[i].email = email /\ coaches[i].row_idx < r + 1

Occurrences(email) ==
    Cardinality({ i \in 1..Len(coaches) : coaches[i].email = email })

SameAddress(f) ==
    Len(f.ol_email) > 0 /\ f.ol_email = f.rc_email

RoleEligible(email, responded, bad, contacted, due) ==
    Len(email) > 0 /\ ~responded /\ ~bad /\ (~contacted \/ due)

NonDualRowOk(r, f) ==
    /\ EmittedFor(r, "ol", f.ol_email)
         <=> ( RoleEligible(f.ol_email, f.ol_responded, f.ol_bad_email,
                            f.ol_contacted, f.ol_due)
               /\ ~EmittedEarlier(r, f.ol_email) )
    /\ EmittedFor(r, "rc", f.rc_email)
         <=> ( RoleEligible(f.rc_email, f.rc_responded, f.rc_bad_email,
                            f.rc_contacted, f.rc_due)
               /\ ~EmittedEarlier(r, f.rc_email) )
    /\ \A i \in EntriesOf(r) :
         \/ coaches[i].type = "ol" /\ coaches[i].email = f.ol_email
         \/ coaches[i].type = "rc" /\ coaches[i].email = f.rc_email

\* C1: in a row with a school whose cleaned OL and RC emails differ (or one is
\* empty), a role's entry is in the list exactly when its cleaned email is
\* non-empty, the role has not responded, its status is not bad, it is not
\* contacted or is due, and no earlier row of the pass emitted the address.
C1_NonDualEligibility ==
    pc = "built" =>
      \A r \in 1..Len(sheet) :
        (Len(FactsOf(r).school) > 0 /\ ~SameAddress(FactsOf(r)))
          => NonDualRowOk(r, FactsOf(r))

\* A pass over a non-dual row that appends the OL coach as a follow-up and
\* leaves out the RC coach, whose address is present.
C1_Witness ==
    /\ pc = "built"
    /\ ~SameAddress(FactsOf(2))
    /\ Len(FactsOf(2).rc_email) > 0
    /\ FactsOf(2).ol_contacted /\ FactsOf(2).ol_due
    /\ EmittedFor(2, "ol", FactsOf(2).ol_email)
    /\ ~EmittedFor(2, "rc", FactsOf(2).rc_email)

DualCandidate(f) ==
    /\ Len(f.school) > 0
    /\ SameAddress(f)
    /\ ~f.ol_responded /\ ~f.rc_responded
    /\ ~f.ol_bad_email /\ ~f.rc_bad_email

\* The statement of C2 as given: the coach of a dual row (no response, no bad
\* status) is in the list once whenever either role is not contacted or
\* either role is due, and the row is skipped otherwise.
C2_AsStated ==
    pc = "built" =>
      \A r \in 1..Len(sheet) :
        DualCandidate(FactsOf(r)) =>
          IF ~FactsOf(r).ol_contacted \/ ~FactsOf(r).rc_contacted
               \/ FactsOf(r).ol_due \/ FactsOf(r).rc_due
          THEN Occurrences(FactsOf(r).ol_email) = 1
          ELSE EntriesOf(r) = {}

DualRowOk(r, f) ==
    IF (~f.ol_contacted /\ ~f.rc_contacted) \/ f.ol_due \/ f.rc_due
    THEN /\ Occurrences(f.ol_email) = 1
         /\ EmittedFor(r, "dual", f.ol_email) <=> ~EmittedEarlier(r, f.ol_email)
    ELSE EntriesOf(r) = {}

\* C2 (amended): the coach of a dual row (no response, no bad status) is in
\* the list once whenever neither role is contacted or either role is due,
\* through this row unless an earlier row emitted the address; the row is
\* skipped otherwise.
C2_DualInclusion ==
    pc = "built" =>
      \A r \in 1..Len(sheet) :
        DualCandidate(FactsOf(r)) => DualRowOk(r, FactsOf(r))

\* A dual row with one role contacted, the other not, and neither due: the
\* row is skipped.
C2_Witness ==
    /\ pc = "built"
    /\ DualCandidate(FactsOf(2))
    /\ FactsOf(2).ol_contacted /\ ~FactsOf(2).rc_contacted
    /\ ~FactsOf(2).ol_due /\ ~FactsOf(2).rc_due
    /\ EntriesOf(2) = {}

\* C3: one pass returns each address at most once, whatever the rows hold.
C3_UniqueAddresses ==
    pc = "built" =>
      \A i, j \in 1..Len(coaches) : coaches[i].email = coaches[j].email => i = j

\* Two rows hold the same eligible address and the list has it once.
C3_Witness ==
    /\ pc = "built"
    /\ RoleEligible(FactsOf(1).ol_email, FALSE, FALSE, FALSE, FALSE)
    /\ Len(FactsOf(1).school) > 0
    /\ FactsOf(2).rc_email = FactsOf(1).ol_email
    /\ ~SameAddress(FactsOf(2))
    /\ RoleEligible(FactsOf(2).rc_email, FactsOf(2).rc_responded, FactsOf(2).rc_bad_email,
                    FactsOf(2).rc_contacted, FactsOf(2).rc_due)
    /\ Occurrences(FactsOf(2).rc_email) = 1

\* The statement of C4 as given: every row whose cleaned OL and RC emails are
\* the same non-empty address yields exactly one entry, of type dual.
C4_AsStated ==
    pc = "built" =>
      \A r \in 1..Len(sheet) :
        SameAddress(FactsOf(r)) =>
          /\ Cardinality(EntriesOf(r)) = 1
          /\ \A i \in EntriesOf(r) : coaches[i].type = "dual"

\* C4 (amended): every row whose cleaned OL and RC emails are the same
\* non-empty address yields at most one entry, of type dual, and never an ol
\* or an rc entry.
C4_DualOnce ==
    pc = "built" =>
      \A r \in 1..Len(sheet) :
        SameAddress(FactsOf(r)) =>
          /\ Cardinality(EntriesOf(r)) <= 1
          /\ \A i \in EntriesOf(r) :
               coaches[i].type = "dual" /\ coaches[i].email = FactsOf(r).ol_email

\* A dual row whose coach is appended, as a follow-up.
C4_Witness ==
    /\ pc = "built"
    /\ SameAddress(FactsOf(2))
    /\ Cardinality(EntriesOf(2)) = 1
    /\ \E i \in EntriesOf(2) : coaches[i].type = "dual" /\ coaches[i].is_followup

RespondedCell(r, col) ==
    Len(Strip(CellAt(sheet[r], col))) > 0

\* C5: a role whose responded cell is non-blank has no entry in the list,
\* whatever its contacted, stage and next-contact cells hold; in a dual row a
\* response on either role leaves the row without an entry.
C5_RespondedExcluded ==
    pc = "built" =>
      \A r \in 1..Len(sheet) :
        /\ RespondedCell(r, ColumnsOf[headers].ol_responded)
             => \A i \in EntriesOf(r) : coaches[i].type = "rc"
        /\ RespondedCell(r, ColumnsOf[headers].rc_responded)
             => \A i \in EntriesOf(r) : coaches[i].type = "ol"

\* An OL coach who responded, is contacted and is due today is left out, and
\* the RC coach of the same row is appended.
C5_Witness ==
    /\ pc = "built"
    /\ RespondedCell(2, ColumnsOf[headers].ol_responded)
    /\ Len(FactsOf(2).ol_email) > 0
    /\ FactsOf(2).ol_contacted /\ FactsOf(2).ol_due
    /\ ~FactsOf(2).ol_bad_email
    /\ EntriesOf(2) # {}
    /\ \A i \in EntriesOf(2) : coaches[i].type = "rc"


\* --------------------------------------------------------------------------
\* Properties of the runs
\* --------------------------------------------------------------------------

\* The sheet rows (1-based in sheet) whose URL cell is url.
RowsWithUrl(sh, url) ==
    { r \in 1..Len(sh) : UrlOf(sh[r]) = url }

\* C6: for a coach nobody had contacted, as long as every send's sheet
\* updates went through, the stage cell read back after the n-th successful
\* send holds 0, 1, 2, 2, ...: 0 after the intro, 1 and 2 after the first and
\* second follow-up, and 2 after every later send.
C6_StageSequence ==
    \A key \in DOMAIN hist :
      (hist[key].n >= 1 /\ hist[key].clean) =>
        /\ hist[key].intro = 1
        /\ \A i \in 1..Len(hist[key].stagecell) :
             hist[key].stagecell[i] =
               DigitStr(IF hist[key].n - 1 <= 2 THEN hist[key].n - 1 ELSE 2)

\* A coach whose fourth successful send has just written stage 2 again.
C6_Witness ==
    \E key \in DOMAIN hist :
      /\ hist[key].n = 4
      /\ hist[key].clean
      /\ hist[key].stagecell = <<<<"2">>>>

\* The date of day number d, as the sender writes it.
DayStr(d) ==
    strftime(AddDays(StartDate, d))

\* The contacted and next-contact cells of the role(s) of an entry type.
ContactCells(row, type) ==
    IF type = "dual" THEN {row[9], row[10]}
    ELSE IF type = "rc" THEN {row[9]} ELSE {row[10]}

NextCells(row, type) ==
    IF type = "dual" THEN {row[14], row[16]}
    ELSE IF type = "rc" THEN {row[14]} ELSE {row[16]}

\* Whether a role of the entry type has a response or a bad status recorded.
Stopped(row, type) ==
    \/ type \in {"rc", "dual"} /\ (Len(Strip(row[17])) > 0 \/ has_bad_email(row[21]))
    \/ type \in {"ol", "dual"} /\ (Len(Strip(row[18])) > 0 \/ has_bad_email(row[22]))

EntryIn(out, r, type) ==
    \E i \in 1..Len(out) : out[i].row_idx = r + 1 /\ out[i].type = type

EarlierIn(out, r, email) ==
    \E i \in 1..Len(out) : out[i].row_idx < r + 1 /\ out[i].email = email

\* The address of the role(s) of an entry type, cleaned.
AddressOf(row, type) ==
    IF type = "rc" THEN clean_email(row[7]) ELSE clean_email(row[8])

\* The last successful send to the coach key = (URL, type) was on day
\* hist[key].day; r is the coach's row.
SentTo(key, r) ==
    /\ hist[key].n >= 1
    /\ r \in RowsWithUrl(sheet, key[1])

\* The same, and the sheet updates of that send went through.
SentAndStamped(key, r) ==
    /\ SentTo(key, r)
    /\ hist[key].landed

Stamped(key, r) ==
    /\ ContactCells(sheet[r], key[2]) = {DayStr(hist[key].day)}
    /\ NextCells(sheet[r], key[2]) = {DayStr(hist[key].day + 3)}

\* Some entry of the pass carries the address.
AddressIn(out, email) ==
    \E i \in 1..Len(out) : out[i].email = email

C7_AsStatedOn(out) ==
    \A key \in DOMAIN hist : \A r \in 1..Len(sheet) :
      SentTo(key, r) =>
        /\ Stamped(key, r)
        /\ today < hist[key].day + 3 => ~EntryIn(out, r, key[2])
        /\ (today >= hist[key].day + 3 /\ ~Stopped(sheet[r], key[2]))
             => AddressIn(out, AddressOf(sheet[r], key[2]))

\* C7: after a successful send on day d the role's contacted cell holds d and
\* its next-contact cell d+3; a builder pass before day d+3 has no entry for
\* that coach, and a pass from day d+3 on proposes the coach's address again
\* unless a response or a bad status is recorded.
C7_AsStated ==
    pc = "idle" => C7_AsStatedOn(get_coaches_to_email(sheet, headers, Now))

CadenceOn(out) ==
    \A key \in DOMAIN hist : \A r \in 1..Len(sheet) :
      SentAndStamped(key, r) =>
        /\ Stamped(key, r)
        /\ today < hist[key].day + 3 => ~EntryIn(out, r, key[2])
        /\ (today >= hist[key].day + 3 /\ ~Stopped(sheet[r], key[2]))
             => ( EntryIn(out, r, key[2])
                    <=> ~EarlierIn(out, r, AddressOf(sheet[r], key[2])) )

\* What does hold of the cadence: when the sheet updates of the send went
\* through, the cells hold d and d+3, a pass before day d+3 has no entry for
\* the coach, and a pass from day d+3 on has one, provided no response and no
\* bad status is recorded and no earlier row of the pass emitted the address.
CadenceWhenStamped ==
    pc = "idle" => CadenceOn(get_coaches_to_email(sheet, headers, Now))

\* A send went out on this day and the row's contacted cell was left as it
\* was, so the pass proposes the coach once more as an intro.
C7_UnstampedOn(out) ==
    \E key \in DOMAIN hist : \E r \in 1..Len(sheet) :
      /\ SentTo(key, r)
      /\ ~hist[key].landed
      /\ today = hist[key].day
      /\ \E i \in 1..Len(out) :
           out[i].row_idx = r + 1 /\ out[i].type = key[2] /\ ~out[i].is_followup

C7_Unstamped ==
    pc = "idle" /\ C7_UnstampedOn(get_coaches_to_email(sheet, headers, Now))

\* Three days after a stamped send the coach is proposed again, as a
\* follow-up.
CadenceWitnessOn(out) ==
    \E key \in DOMAIN hist : \E r \in 1..Len(sheet) :
      /\ SentAndStamped(key, r)
      /\ today = hist[key].day + 3
      /\ \E i \in 1..Len(out) :
           out[i].row_idx = r + 1 /\ out[i].type = key[2] /\ out[i].is_followup

CadenceWitness ==
    pc = "idle" /\ CadenceWitnessOn(get_coaches_to_email(sheet, headers, Now))

\* The addresses the coach key = (URL, type) stands for in the sheet.
AddressesOfKey(key) ==
    { AddressOf(sheet[r], key[2]) : r \in RowsWithUrl(sheet, key[1]) }

\* C21: over the runs, no address is sent the intro email (an entry with
\* is_followup false) a second time after a successful intro, whether or not
\* the sheet updates of the sends went through.
C21_AsStated ==
    /\ \A key \in DOMAIN hist : hist[key].intro <= 1
    /\ \A k1, k2 \in DOMAIN hist :
          (k1 # k2 /\ hist[k1].intro >= 1 /\ hist[k2].intro >= 1)
            => AddressesOfKey(k1) \cap AddressesOfKey(k2) = {}

\* A coach of one row whose intro went out twice, the sheet update of the
\* first having failed.
C21_SecondIntro ==
    \E key \in DOMAIN hist :
      /\ hist[key].intro = 2
      /\ ~hist[key].clean

\* The number of successful sends among the first k attempts of the batch.
SentBefore(k) ==
    Cardinality({ j \in 1..(k - 1) : attempts[j].outcome = "sent" })

\* C10: once a send of the batch is classified as blocked, no send is
\* attempted for a later coach, the sent count is the number of successful
\* sends before it, and the coaches after it are counted neither as sent nor
\* as errors.
C10_BlockedHalts ==
    \A k \in 1..Len(attempts) :
      attempts[k].outcome = "blocked" =>
        /\ k = Len(attempts)
        /\ pc \in {"finally", "return"}
        /\ sent = SentBefore(k)
        /\ sent + errors = attempts[k].i + 1

\* A batch of three coaches returns after one send and one blocked send, with
\* the third coach left.
C10_Witness ==
    /\ pc = "return"
    /\ Len(coaches) = 3
    /\ Len(attempts) = 2
    /\ attempts[1].outcome = "sent"
    /\ attempts[2].outcome = "blocked"
    /\ sent = 1 /\ errors = 1 /\ skipped = 0


\* --------------------------------------------------------------------------
\* Properties of the failure handling of send_to_coaches
\* --------------------------------------------------------------------------

\* The email-status cells of the role(s) of an entry type.
StatusCells(row, type) ==
    IF type = "dual" THEN {row[RC_EMAIL_STATUS_COL], row[OL_EMAIL_STATUS_COL]}
    ELSE IF type = "rc" THEN {row[RC_EMAIL_STATUS_COL]} ELSE {row[OL_EMAIL_STATUS_COL]}

\* The step is a send attempt of the loop that was classified as outcome.
JustAttempted(outcome) ==
    /\ Len(attempts') = Len(attempts) + 1
    /\ attempts'[Len(attempts')].outcome = outcome

\* After the step the coach of the iteration is stamped 'wrong', the loop goes
\* on with the next coach and a builder pass leaves the coach's role out.
StampedWrongAndOn ==
    LET coach == coaches[idx + 1]
        r     == coach.row_idx - 1
    IN  /\ r \in 1..Len(sheet')
        /\ StatusCells(sheet'[r], coach.type) = {wrong}
        /\ idx' = idx + 1
        /\ pc' = NextPc(idx, coaches)
        /\ ~EntryIn(get_coaches_to_email(sheet', headers, Now), r, coach.type)

\* C11: a failed send classified as invalid recipient and not as blocked
\* stamps the role's email-status cell 'wrong' (both cells of a dual entry),
\* the batch goes on with the next coach, and a builder pass on the sheet as
\* it then stands leaves that role out.
C11_AsStated ==
    [][ JustAttempted("invalid") => StampedWrongAndOn ]_vars

\* What does hold: the same, when the update_cell calls of the iteration went
\* through.
InvalidStampedWhenLanded ==
    [][ (JustAttempted("invalid") /\ attempts'[Len(attempts')].landed)
          => StampedWrongAndOn ]_vars

\* A role whose status cell reads 'wrong' is left out of every pass.
WrongLeftOutOn(out) ==
    \A r \in 1..Len(sheet) : \A type \in EntryTypes :
      wrong \in StatusCells(sheet[r], type) => ~EntryIn(out, r, type)

WrongLeftOut ==
    pc = "idle" => WrongLeftOutOn(get_coaches_to_email(sheet, headers, Now))

\* The batch has returned, a send of it bounced as an invalid recipient, the
\* stamp was lost, and a pass over the sheet proposes the same coach again.
C11_UnstampedOn(out) ==
    \E k \in 1..Len(attempts) :
      LET coach == coaches[attempts[k].i + 1]
      IN  /\ attempts[k].outcome = "invalid"
          /\ ~attempts[k].landed
          /\ EntryIn(out, coach.row_idx - 1, coach.type)

C11_Unstamped ==
    pc = "return" /\ C11_UnstampedOn(get_coaches_to_email(sheet, headers, Now))

\* C12: in one call of send_to_coaches the successful sends never exceed
\* max_per_day minus the tracker's daily count at the start of the call; no
\* send is attempted once that many went out; and when the loop stops on the
\* quota with coaches left, all of them are counted in skipped and none in
\* errors.
C12_QuotaRespected ==
    pc \in {"loop", "finally", "return"} =>
      /\ remaining = max_per_day - (daily_count - sent)
      /\ sent <= remaining
      /\ \A k \in 1..Len(attempts) : SentBefore(k) < remaining
      /\ (pc # "loop" /\ limit_reached(sent, remaining) /\ idx < Len(coaches))
           => /\ skipped = Len(coaches) - idx
              /\ sent + errors = idx

\* A call with three coaches and a quota of two left returns two sent and
\* one skipped.
C12_Witness ==
    /\ pc = "return"
    /\ Len(coaches) = 3
    /\ remaining = 2
    /\ sent = 2 /\ skipped = 1 /\ errors = 0

\* The address of the coach of the coming iteration, as the loop reads it.
NextAddress ==
    Lower(Strip(coaches[idx + 1].email))

\* C13: an iteration of the loop never hands an address that fails
\* is_single_valid_email to send_email; it counts the entry as an error,
\* writes nothing to the sheet and goes on with the next coach.  Every
\* attempt that is made goes to the address that passed.
C13_NoSendToInvalid ==
    [][ (pc = "loop" /\ ~limit_reached(sent, remaining)) =>
          IF is_single_valid_email(NextAddress)
          THEN Len(attempts') > Len(attempts)
                 => attempts'[Len(attempts')].email = NextAddress
          ELSE /\ attempts' = attempts
               /\ sheet' = sheet
               /\ errors' = errors + 1
               /\ sent' = sent /\ skipped' = skipped
               /\ idx' = idx + 1
               /\ pc' = NextPc(idx, coaches) ]_vars

\* A list whose first entry carries two addresses in one string: the entry
\* was counted as an error, and the coach after it was sent to.
C13_Witness ==
    /\ pc \in {"loop", "finally", "return"}
    /\ Len(coaches) >= 2
    /\ ~is_single_valid_email(Lower(Strip(coaches[1].email)))
    /\ errors = 1
    /\ Len(attempts) >= 1
    /\ attempts[1].i = 1
    /\ attempts[1].outcome = "sent"

\* C14: when send_email cannot re-establish the connection for a coach of
\* the batch, the batch is over: that attempt is the last one and the loop
\* is left.
C14_AsStated ==
    \A k \in 1..Len(attempts) :
      attempts[k].noconn =>
        /\ k = Len(attempts)
        /\ pc \in {"finally", "return"}

\* After a send that dropped the connection and a coach for whom the
\* reconnection failed, the loop went on, reconnected, sent to a later coach
\* and stamped that coach's row.
C14_SentAfterwards ==
    \E k \in 1..Len(attempts) : \E j \in (k + 1)..Len(attempts) :
      /\ attempts[k].noconn
      /\ attempts[j].outcome = "sent"
      /\ attempts[j].landed

StampedAlike(row) ==
    /\ row[RC_STAGE_COL] = row[OL_STAGE_COL]
    /\ row[RC_NEXT_COL] = row[OL_NEXT_COL]

\* C18: once a dual-role entry was sent successfully, the RC and OL stage
\* cells of its row hold the same value and the RC and OL next-contact cells
\* the same date, whether or not a sheet update failed.
C18_AsStated ==
    \A url \in Urls :
      hist[<<url, "dual">>].n >= 1 =>
        \A r \in RowsWithUrl(sheet, url) : StampedAlike(sheet[r])

\* What does hold: the same, as long as every update of the sends to that
\* coach went through.
DualStampedAlikeWhenLanded ==
    \A url \in Urls :
      (hist[<<url, "dual">>].n >= 1 /\ hist[<<url, "dual">>].clean) =>
        \A r \in RowsWithUrl(sheet, url) : StampedAlike(sheet[r])

\* A follow-up to a dual-role coach went out, the RC cells were updated and
\* the update of the OL stage cell raised: the row reads RC stage 1, OL
\* stage 0.
C18_StampedApart ==
    \E url \in Urls : \E r \in RowsWithUrl(sheet, url) :
      /\ hist[<<url, "dual">>].n = 2
      /\ ~hist[<<url, "dual">>].landed
      /\ sheet[r][RC_STAGE_COL] = <<"1">>
      /\ sheet[r][OL_STAGE_COL] = <<"0">>

\* C17: in the email batch loop and in the DM batch loops the send attempts of
\* a batch follow the list in order, each coach of the list is attempted at
\* most once, and a delay elapses between any two consecutive attempts.
C17_SequentialWithDelay ==
    /\ \A k \in 1..(Len(attempts) - 1) :
          /\ attempts[k].i < attempts[k + 1].i
          /\ attempts[k].sleeps < attempts[k + 1].sleeps
    /\ \A k \in 1..(Len(dm.attempts) - 1) :
          /\ dm.attempts[k].i < dm.attempts[k + 1].i
          /\ dm.attempts[k].sleeps < dm.attempts[k + 1].sleeps

\* An email batch with two attempts, the first of them failed, after a DM
\* batch with two attempts, the first of them failed.
C17_Witness ==
    /\ Len(attempts) >= 2
    /\ attempts[1].outcome # "sent"
    /\ Len(dm.attempts) >= 2
    /\ ~dm.attempts[1].ok

\* The last attempt of the batch in progress was classified as blocked.
LastBlocked ==
    /\ Len(attempts) > 0
    /\ attempts[Len(attempts)].outcome = "blocked"

\* The step removes the row of the coach of the iteration and nothing else.
DeletesRowOfCoach ==
    LET coach == coaches[idx + 1]
    IN  /\ Len(sheet') = Len(sheet) - 1
        /\ sheet' = delete_rows(sheet, coach.row_idx)

\* C27: a send classified as blocked deletes exactly the row of the blocked
\* coach, and no step of the batch after it changes the sheet, so no write
\* lands on a row the deletion moved.
C27_AsStated ==
    [][ /\ JustAttempted("blocked") => DeletesRowOfCoach
        /\ LastBlocked => sheet' = sheet ]_vars

\* What does hold: the row of the blocked coach is deleted when delete_rows
\* goes through and the sheet is left as it was when it raises, and no step
\* of the batch after the blocked send changes the sheet.
BlockedFrame ==
    [][ /\ JustAttempted("blocked") =>
             IF attempts'[Len(attempts')].landed THEN DeletesRowOfCoach
             ELSE sheet' = sheet
        /\ LastBlocked => sheet' = sheet ]_vars

\* The batch has returned after a blocked send whose delete_rows raised: the
\* row is still on the sheet and a pass over the sheet proposes the coach
\* again.
C27_RowKept ==
    /\ pc = "return"
    /\ LastBlocked
    /\ ~attempts[Len(attempts)].landed
    /\ LET coach == coaches[attempts[Len(attempts)].i + 1]
       IN  EntryIn(get_coaches_to_email(sheet, headers, Now),
                   coach.row_idx - 1, coach.type)

\* --------------------------------------------------------------------------
\* Properties of the DM batches and of the DM tracker
\* --------------------------------------------------------------------------

\* The number of failed attempts of the DM batch.
FailedDMs ==
    Cardinality({k \in 1..Len(dm.attempts) : ~dm.attempts[k].ok})

\* C19: when a DM batch stops on the daily limit, no DM is attempted after the
\* stop, and the summary counts every coach of the list that was not attempted
\* as skipped and only the failed attempts as errors.
C19_AsStated ==
    dm.limit =>
        /\ dm.pc # "loop"
        /\ \A k \in 1..Len(dm.attempts) : dm.attempts[k].i < dm.i
        /\ dm.errors = FailedDMs
        /\ dm.skipped = Len(dm.coaches) - Len(dm.attempts)

\* What the code keeps of it: after the stop on the limit no DM is attempted,
\* and the coaches left are not counted as errors.
NoDMAfterLimit ==
    dm.limit =>
        /\ dm.pc # "loop"
        /\ \A k \in 1..Len(dm.attempts) : dm.attempts[k].i < dm.i
        /\ dm.errors = FailedDMs

\* A batch stopped on the limit after its sends of the run, whose summary
\* leaves the coaches from the stop on out of every count.
C19_LeftUncounted ==
    /\ dm.limit
    /\ dm.pc = "return"
    /\ dm.sent > 0
    /\ dm.i < Len(dm.coaches)
    /\ dm.sent + dm.errors + dm.skipped = dm.i

\* The ways of writing a handle: with and without the leading '@', in the
\* case given, in lower case and in upper case.
Variants(handle) ==
    LET bare == LStripAt(handle)
    IN  {bare, Lower(bare), Upper(bare)}
        \cup {<<"@">> \o v : v \in {bare, Lower(bare), Upper(bare)}}

\* C20: has_sent_to is true of every variant of every handle that mark_sent
\* recorded and of every handle the sheet showed as messaged when the tracker
\* was constructed.
C20_AsStated ==
    \A handle \in tracker.marked \cup tracker.messaged :
        \A v \in Variants(handle) : has_sent_to(tracker, v)

\* What the code keeps of it: the handles recorded by mark_sent.
MarkedAreKnown ==
    \A handle \in tracker.marked :
        \A v \in Variants(handle) : has_sent_to(tracker, v)

\* A tracker that recorded a DM of its own and holds no key for a handle the
\* sheet showed as messaged when it was constructed.
C20_NotLoaded ==
    /\ tracker.marked # {}
    /\ \E handle \in tracker.messaged : ~has_sent_to(tracker, handle)

\* No key of sent_dms was passed to mark_sent twice since the tracker was
\* constructed: no handle got a second successful DM.
OneDMPerHandle ==
    \A h \in DOMAIN tracker.delivered : tracker.delivered[h] <= 1

\* The step is a call of send_dm that returned success False.
FailedSendDM ==
    /\ dm'.attempts # dm.attempts
    /\ Len(dm'.attempts) > 0
    /\ ~dm'.attempts[Len(dm'.attempts)].ok

\* The tracker as send_dm finds it: a batch loop has called get_daily_count
\* in the iteration before it calls send_dm.
TrackerAtCall ==
    IF dm.pc = "loop" THEN dm_get_daily_count(tracker, today) ELSE tracker

\* C28: over the calls of send_dm and the batches of one tracker no handle,
\* lowercased and without its leading '@', gets a second successful DM, and a
\* send_dm that fails or refuses leaves sent_dms and daily_count as they were.
C28_AsStated ==
    /\ []OneDMPerHandle
    /\ [][ FailedSendDM =>
             /\ tracker'.sent_dms = TrackerAtCall.sent_dms
             /\ tracker'.daily_count = TrackerAtCall.daily_count ]_vars

\* C28 as it holds: no handle gets a second successful DM; a send_dm that
\* fails or refuses leaves sent_dms as it was; it leaves daily_count as it
\* was too, except that a call that fails in the browser as the first call of
\* a new day has reset daily_count to 0.
C28_OnePerHandle ==
    /\ []OneDMPerHandle
    /\ [][ FailedSendDM =>
             /\ tracker'.sent_dms = TrackerAtCall.sent_dms
             /\ tracker'.daily_count =
                  (IF faults' # faults /\ TrackerAtCall.last_reset_date # today
                   THEN 0 ELSE TrackerAtCall.daily_count) ]_vars

\* On the second day send_dm is called with the handle of a coach who got a
\* DM under another spelling of the handle, and refuses.
C28_Witness ==
    /\ dm.pc = "idle"
    /\ today = MaxDay
    /\ Len(dm.attempts) = 1
    /\ ~dm.attempts[1].ok
    /\ dm.attempts[1].handle = HandleAPlain
    /\ LStripAt(HandleA) \in tracker.marked
    /\ tracker.delivered = (HandleAPlain :> 1)
    /\ tracker.last_reset_date = MaxDay - 1

\* --------------------------------------------------------------------------
\* Properties of the runs on a sheet in either column order
\* --------------------------------------------------------------------------

\* The last send attempt of the batch under way.
LastAttempt ==
    attempts[Len(attempts)]

\* The stage, next-contact and email-status cells a builder pass reads for
\* the role(s) of an entry, in the columns its keyword lookup finds.
CellsRead(coach) ==
    LET c   == ColumnsOf[headers]
        row == sheet[coach.row_idx - 1]
        rc  == [stage |-> CellAt(row, c.rc_stage), next |-> CellAt(row, c.rc_next),
                status |-> CellAt(row, c.rc_email_status)]
        ol  == [stage |-> CellAt(row, c.ol_stage), next |-> CellAt(row, c.ol_next),
                status |-> CellAt(row, c.ol_email_status)]
    IN  IF coach.type = "dual" THEN {rc, ol}
        ELSE IF coach.type = "rc" THEN {rc} ELSE {ol}

\* The lookup finds the stage, next-contact and email-status columns.
ColumnsFound ==
    LET c == ColumnsOf[headers]
    IN  \A col \in {c.rc_stage, c.rc_next, c.ol_stage, c.ol_next,
                     c.rc_email_status, c.ol_email_status} : col >= 0

\* Right after a send whose sheet updates went through, a builder pass reads
\* back what the sender wrote.
ReadsBack ==
    (pc \in {"loop", "finally"} /\ Len(attempts) > 0 /\ LastAttempt.landed
       /\ LastAttempt.outcome \in {"sent", "invalid"}) =>
      LET coach == coaches[LastAttempt.i + 1]
      IN  \A cells \in CellsRead(coach) :
            IF LastAttempt.outcome = "sent"
            THEN /\ cells.stage = DigitStr(new_stage(coach))
                 /\ cells.next = strftime(AddDays(Now, FOLLOWUP_DAYS))
            ELSE cells.status = wrong

\* C22: in every column order in which the lookup finds the stage,
\* next-contact and email-status columns, a builder pass right after a send
\* reads back the stage and the next-contact date the sender wrote, and after
\* an invalid-recipient failure the 'wrong' status.
C22_AsStated ==
    ColumnsFound => ReadsBack

\* What does hold: the same in the column order of DEFAULT_HEADERS.
ReadsBackInDefaultOrder ==
    headers = DEFAULT_HEADERS => ReadsBack

\* A send went out on a sheet in the other column order, every write of it
\* went through, and the stage cell the builder reads does not hold the
\* stage written.
C22_WrittenElsewhere ==
    /\ headers # DEFAULT_HEADERS
    /\ ColumnsFound
    /\ pc \in {"loop", "finally"}
    /\ Len(attempts) > 0
    /\ LastAttempt.landed
    /\ LastAttempt.outcome = "sent"
    /\ \E cells \in CellsRead(coaches[LastAttempt.i + 1]) :
         cells.stage # DigitStr(new_stage(coaches[LastAttempt.i + 1]))

\* --------------------------------------------------------------------------
\* Properties of find_col
\* --------------------------------------------------------------------------

\* The 0-based indices of the headers whose lowercased, trimmed text contains
\* at least one of the keywords.
Matching(hdrs, keywords) ==
    { i \in 0..(Len(hdrs) - 1) :
        \E k \in 1..Len(keywords) : Contains(Lower(Strip(hdrs[i + 1])), keywords[k]) }

\* The keywords in the opposite order.
Reversed(keywords) ==
    [k \in 1..Len(keywords) |-> keywords[Len(keywords) + 1 - k]]

\* C23: find_col returns the smallest index of a matching header, the same
\* for the keywords in another order, and -1 when no header matches.
C23_SmallestMatch ==
    applied.fn = "find_col" =>
      LET m == Matching(headers, applied.keywords)
      IN  /\ m = {} => applied.result = -1
          /\ m # {} => /\ applied.result \in m
                        /\ \A i \in m : applied.result <= i
          /\ applied.result = find_col(headers, Reversed(applied.keywords))

\* A lookup with two keywords of which the second matches an earlier header
\* than the first.
C23_Witness ==
    /\ applied.fn = "find_col"
    /\ Len(applied.keywords) = 2
    /\ applied.result >= 0
    /\ find_col(headers, <<applied.keywords[1]>>) > applied.result

\* --------------------------------------------------------------------------
\* Properties of clean_email
\* --------------------------------------------------------------------------

\* Every address of the cell is valid on its own.
AllValid(parts) ==
    \A k \in 1..Len(parts) : is_valid_email(parts[k])

\* The result is empty or one well-formed address of admissible length.
EmptyOrOneAddress(result) ==
    result # <<>> => (MatchesEmailPattern(result) /\ Len(result) < MaxEmailLen)

\* C24: for a cell of several valid addresses joined by ',', ';' or a newline
\* clean_email returns the first of them, trimmed and lowercased; whatever the
\* cell, the result is empty or one well-formed address.
C24_AsStated ==
    applied.fn = "clean_email" =>
      /\ AllValid(applied.parts) => applied.result = Lower(Strip(applied.parts[1]))
      /\ EmptyOrOneAddress(applied.result)

\* What does hold: the same for cells whose separators hold no newline.
FirstOfCommaSeparated ==
    applied.fn = "clean_email" =>
      /\ (AllValid(applied.parts)
            /\ \A k \in 1..Len(applied.seps) : ~Contains(applied.seps[k], <<"\n">>))
           => applied.result = Lower(Strip(applied.parts[1]))
      /\ EmptyOrOneAddress(applied.result)

\* Two valid addresses on two lines of a cell, and nothing returned.
C24_NewlineJoined ==
    /\ applied.fn = "clean_email"
    /\ Len(applied.parts) = 2
    /\ AllValid(applied.parts)
    /\ applied.seps = << <<"\n">> >>
    /\ applied.result = <<>>

\* --------------------------------------------------------------------------
\* Properties of the two ways of recording a send
\* --------------------------------------------------------------------------

\* C25: for every content of the stage cell, mark_contacted_with_followup
\* makes the update_cell calls the sender makes after a successful send of
\* the same kind: the same cells with today, stage 0 or min(stage + 1, 2),
\* and today + 3, a stage cell of other text counting as stage 0.
C25_AsStated ==
    applied.fn = "mark_contacted_with_followup" =>
      /\ ~applied.raised
      /\ applied.manager = applied.sender

\* What does hold: the same for a stage cell that is blank or holds digits.
SameWritesForDigits ==
    (applied.fn = "mark_contacted_with_followup"
       /\ (Strip(applied.cell) = <<>> \/ IsDigitStr(Strip(applied.cell)))) =>
      /\ ~applied.raised
      /\ Len(applied.sender) = 3
      /\ applied.manager = applied.sender

\* A follow-up on a stage cell of other text: the sender writes stage 1, the
\* manager raises before any write.
C25_Raised ==
    /\ applied.fn = "mark_contacted_with_followup"
    /\ ~applied.is_intro
    /\ applied.raised
    /\ applied.manager = <<>>
    /\ Len(applied.sender) = 3
    /\ applied.sender[2].value = <<"1">>

\* The values either way of recording the send writes to a stage cell.
StageCols ==
    {RC_STAGE_COL, OL_STAGE_COL}

StagesWritten(writes) ==
    {writes[n].value : n \in {k \in 1..Len(writes) : writes[k].col \in StageCols}}

StageValues ==
    {DigitStr(n) : n \in 0..MAX_STAGE}

\* C26: whatever the stage cell held, every stage value the sender or
\* mark_contacted_with_followup writes is 0, 1 or 2.
C26_AsStated ==
    applied.fn = "mark_contacted_with_followup" =>
      /\ StagesWritten(applied.sender) \subseteq StageValues
      /\ StagesWritten(applied.manager) \subseteq StageValues

\* What does hold: the stage the sender writes is 0, 1 or 2, and so is the
\* stage the manager writes over a stage cell that is blank or holds digits.
StageInRangeForDigits ==
    applied.fn = "mark_contacted_with_followup" =>
      /\ StagesWritten(applied.sender) \subseteq StageValues
      /\ (Strip(applied.cell) = <<>> \/ IsDigitStr(Strip(applied.cell)))
            => StagesWritten(applied.manager) \subseteq StageValues

\* A follow-up recorded by the manager over a stage cell of -5: stage -4 is
\* written.
C26_NegativeStage ==
    /\ applied.fn = "mark_contacted_with_followup"
    /\ ~applied.is_intro
    /\ applied.cell = <<"-", "5">>
    /\ StagesWritten(applied.manager) = {<<"-", "4">>}
    /\ StagesWritten(applied.sender) = {<<"1">>}

\* --------------------------------------------------------------------------
\* Properties of the calls through retry_on_error
\* --------------------------------------------------------------------------

\* C16: a call of update_cell, get_all_data or delete_row whose worksheet
\* call is rate-limited is tried again, after waits of delay * 2^k, up to
\* MAX_RETRIES tries in all, and raises when every try was rate-limited.
C16_AsStated ==
    (wrapped.fn # "none" /\ wrapped.outs[1] = "rate_limited") =>
      /\ wrapped.tries >= 2
      /\ Len(wrapped.waits) >= wrapped.tries - 1
      /\ \A k \in 1..Len(wrapped.waits) : wrapped.waits[k] = RETRY_DELAY * Pow2(k - 1)
      /\ (\A k \in 1..wrapped.tries : wrapped.outs[k] = "rate_limited")
           => (wrapped.tries = MAX_RETRIES /\ wrapped.kind = "raise")

\* update_cell was rate-limited on its first worksheet call and returned
\* False at once: one try, no wait, nothing raised.
C16_Swallowed ==
    /\ wrapped.fn = "update_cell"
    /\ wrapped.outs[1] = "rate_limited"
    /\ wrapped.kind = "return"
    /\ ~wrapped.value
    /\ wrapped.tries = 1
    /\ wrapped.waits = <<>>

\* --------------------------------------------------------------------------
\* Properties of the runs with responses
\* --------------------------------------------------------------------------

\* The responded, stage and next-contact cells of a role, by sheet position.
RespondedOf(row, role) ==
    IF role = "rc" THEN row[17] ELSE row[18]

StageOf(row, role) ==
    IF role = "rc" THEN row[13] ELSE row[15]

NextOf(row, role) ==
    IF role = "rc" THEN row[14] ELSE row[16]

ContactedOf(row, role) ==
    IF role = "rc" THEN row[9] ELSE row[10]

RespondedAt(sh, r, role) ==
    Len(Strip(RespondedOf(sh[r], role))) > 0

\* A pass over sh on day number day has no entry for the role of row r,
\* neither of its own type nor as a dual entry.
NotProposed(out, r, role) ==
    \A i \in 1..Len(out) : ~(out[i].row_idx = r + 1 /\ out[i].type \in {role, "dual"})

\* The responded cell of the role is kept by a step from sh to the sheet nxt,
\* in the row of the same URL, if the row is still there.
KeepsResponded(sh, nxt, role) ==
    \A r \in 1..Len(sh) :
      RespondedAt(sh, r, role) =>
        \A r2 \in RowsWithUrl(nxt, UrlOf(sh[r])) : RespondedAt(nxt, r2, role)

\* A pass over sh on day number day has no entry for a role that responded.
LeavesOutResponded(sh, day, role) ==
    \A r \in 1..Len(sh) :
      RespondedAt(sh, r, role) =>
        NotProposed(get_coaches_to_email(sh, headers, AddDays(StartDate, day)), r, role)

\* C8: once mark_responded has set a role's responded cell, every step of the
\* runs (builder passes and sends, calls of mark_contacted_with_followup and
\* mark_responded, days passing) leaves the cell non-blank for as long as the
\* row exists, and a builder pass over the sheet it leads to has no entry for
\* that role's coach.
C8_RespondedTerminal ==
    [][ \A role \in {"rc", "ol"} :
          /\ KeepsResponded(sheet, sheet', role)
          /\ LeavesOutResponded(sheet', today', role) ]_vars

\* A coach the sender emailed, marked as responded on the first day and
\* marked contacted by hand afterwards: three days on the next-contact date
\* is due and the pass leaves the coach out.
C8_Witness ==
    /\ pc = "idle"
    /\ today = MaxDay
    /\ \E r \in 1..Len(sheet) : \E role \in {"rc", "ol"} :
         /\ RespondedOf(sheet[r], role) = DayStr(MaxDay - RespDays)
         /\ is_contacted(ContactedOf(sheet[r], role))
         /\ is_due_for_followup(NextOf(sheet[r], role), Now)
         /\ \E type \in EntryTypes : hist[<<UrlOf(sheet[r]), type>>].n >= 1
         /\ NotProposed(get_coaches_to_email(sheet, headers, Now), r, role)

\* The main-sheet rows and roles whose cleaned address is coach_email.
RolesOf(coach_email) ==
    { <<r, role>> \in (1..Len(sheet)) \X {"rc", "ol"} :
        AddressOf(sheet[r], role) = coach_email }

ScanRecordedOn(out) ==
    \A rsp \in responses : \A p \in RolesOf(rsp.coach_email) :
      /\ RespondedAt(sheet, p[1], p[2])
      /\ StageOf(sheet[p[1]], p[2]) = <<>>
      /\ NextOf(sheet[p[1]], p[2]) = <<>>
      /\ NotProposed(out, p[1], p[2])

\* The statement of C9: once an inbox scan has recorded a response from a
\* coach, the coach's row in the main sheet has the responded cell set and
\* the stage and next-contact cells blank, and a builder pass does not
\* propose the coach.
C9_AsStated ==
    ScanRecordedOn(get_coaches_to_email(sheet, headers, Now))

StillProposedOn(out) ==
    \E rsp \in responses :
      /\ \E i \in 1..Len(email_log) :
           email_log[i].coach_email = rsp.coach_email /\ email_log[i].responded = yes
      /\ \E i \in 1..Len(out) : out[i].email = rsp.coach_email /\ out[i].is_followup

\* A coach whose response the scan recorded, and marked in EmailLog, is
\* proposed for a follow-up by the next pass.
C9_Witness ==
    pc = "idle" /\ StillProposedOn(get_coaches_to_email(sheet, headers, Now))

\* --------------------------------------------------------------------------
\* Properties of the inbox scans
\* --------------------------------------------------------------------------

\* record_response was called at most once for each (coach email, subject).
RecordedOnce ==
    \A k \in DOMAIN applied.recorded : applied.recorded[k] <= 1

\* A scan that gets from the inbox what the scan before it got finds nothing
\* new.
RescanFindsNone ==
    (applied.again /\ applied.raw = applied.prev_raw) => applied.new_count = 0

\* C29: check_gmail_for_responses records only new responses: each message
\* of the inbox, known by (coach email, subject), is recorded at most once,
\* and a scan of an inbox that has not changed returns new_count 0 and
\* records nothing.  It holds in the runs of one tracker (SpecOneTracker).
C29_AsStated ==
    applied.fn = "check_gmail_for_responses" => RecordedOnce /\ RescanFindsNone

\* With no call failed, a scan after a restart got the one message the scan
\* before it got, returned new_count 1 and recorded the message a second
\* time.
C29_RecordedAgain ==
    /\ applied.fn = "check_gmail_for_responses"
    /\ faults = 0
    /\ applied.again
    /\ Cardinality(applied.raw) = 1
    /\ applied.raw = applied.prev_raw
    /\ applied.new_count = 1
    /\ \E msg \in applied.raw : applied.recorded[ResponseKey(msg)] = 2

\* --------------------------------------------------------------------------
\* Properties of the deduplication script
\* --------------------------------------------------------------------------

\* The school name of a row as the script groups by it.
NameOf(row) ==
    school_name(row, DedupColumnsOf[headers].school)

RowsOf(sh, name) ==
    { j \in 1..Len(sh) : NameOf(sh[j]) = name }

\* The names that were on more than one row when the script started.
Duplicated ==
    duplicates(applied.before, DedupColumnsOf[headers].school)

\* The row has contacted data.
Contacted(row) ==
    Truthy(has_contacted_data(row, DedupColumnsOf[headers].rc, DedupColumnsOf[headers].ol))

\* Row j of the rows E of a school is one the script is to keep: a row with
\* contacted data if E has one, else a row with the most non-empty cells.
RowToKeep(rows, E, j) ==
    IF \E k \in E : Contacted(rows[k]) THEN Contacted(rows[j])
    ELSE \A k \in E : count_non_empty(rows[k]) <= count_non_empty(rows[j])

\* One row is left of every duplicated school, a row to keep, and the rows
\* of the other schools are as they were.
Deduplicated ==
    /\ \A name \in Duplicated :
         /\ Cardinality(RowsOf(sheet, name)) = 1
         /\ \E j \in RowsOf(applied.before, name) :
              /\ \A i \in RowsOf(sheet, name) : sheet[i] = applied.before[j]
              /\ RowToKeep(applied.before, RowsOf(applied.before, name), j)
    /\ SelectSeq(sheet, LAMBDA row : NameOf(row) \notin Duplicated)
         = SelectSeq(applied.before, LAMBDA row : NameOf(row) \notin Duplicated)

\* C30: a run of the script whose operator confirms ends with exactly one
\* row of every school name (trimmed, in lowercase) that was on more than one
\* row, a row with contacted data if the school had one and else a row with
\* the most non-empty cells, and with every row of the other schools in
\* place.
C30_AsStated ==
    (applied.fn = "deduplicate_schools" /\ applied.answer # no) =>
      /\ ~applied.raised
      /\ Deduplicated

\* What does hold: the same, when the sort does not raise and every
\* delete_rows call goes through.
DeduplicatedWhenSorted ==
    (applied.fn = "deduplicate_schools" /\ applied.answer = yes /\ applied.lost = {}) =>
      Deduplicated

\* The script has raised in the sort on a sheet in the default headers that
\* has a duplicated school and no contacted cell filled in: the duplicates
\* are still there.
C30_Raised ==
    /\ applied.fn = "deduplicate_schools"
    /\ applied.raised
    /\ headers = DEFAULT_HEADERS
    /\ Duplicated # {}
    /\ \A j \in 1..Len(sheet) : ~Contacted(sheet[j])
    /\ sheet = applied.before

====
